---- MODULE Spec2Model ----
(***************************************************************************)
(* A model of SelfEvolveWeb: the static BIOS (src/App.tsx), the evolving   *)
(* OS layer and its module loader (the '/boot/bootloader.tsx' entry of     *)
(* INITIAL_PROJECT) and the kernel IDE that issues evolution requests.     *)
(*                                                                         *)
(* Text is modelled as a sequence of tokens, so that concatenation, the    *)
(* split on '/' and the suffix tests of the source are computed and not    *)
(* assumed: "/boot/kernel.tsx" is <<"/","boot","/","kernel",".tsx">>.      *)
(* The tokens are "/", ".", "..", ".tsx", ".ts" and plain names.           *)
(***************************************************************************)
EXTENDS Integers, Sequences, FiniteSets, TLC

VARIABLES
    lvfs,         \* loader run: the projectFiles the pass closes over
    limporter,    \* loader run: importerPath of the top-level call
    limportPath,  \* loader run: importPath of the top-level call
    lresult,      \* loader run: outcome of the call, NoRun before it ran
    bresult,      \* loader run: outcome of the same call inside the bundle
    lprev,        \* loader run: outcome of the pass before lresult's, or NoRun
    store,        \* localStorage[LOCAL_STORAGE_KEY], parsed; NoItem when absent
    sys,          \* the React state of App, ErrorBoundary, Bootloader, Kernel
    last,         \* history: the last operation, its input and what it applied
    serviceCalls, \* history: number of generateContent calls issued so far
    mutations,    \* history: number of VFS mutations applied so far
    chain,        \* history: the setItem calls and step-2 runs of the last commit
    ide,          \* the IDE of src/boot/kernel.tsx: its VFS, Kernel, LivePreview
    san           \* sanitizer run: the code given and what was returned

loaderVars == <<lvfs, limporter, limportPath, lresult, bresult, lprev>>

supervisorVars == <<store, sys, last, serviceCalls, mutations, chain>>

ideVars == <<ide>>

sanitizeVars == <<san>>

vars == <<lvfs, limporter, limportPath, lresult, bresult, lprev,
          store, sys, last, serviceCalls, mutations, chain, ide, san>>

-----------------------------------------------------------------------------
(* Bounds                                                                  *)

\* JavaScript call-stack budget, counted in nested customRequire frames.
StackLimit == 6

\* Largest number of files in a VFS the loader run is started on.
MaxLoadFiles == 2

\* Largest number of VFS mutations (edits, applied evolutions) in a run.
MaxMutations == 2

\* Largest number of calls to the generative service in a run.
MaxCalls == 2

\* Largest number of entries in the changes of a multi-target response.
MaxChanges == 2

\* Largest number of VFS mutations (edits, applied batches) in a run of the IDE.
MaxIdeMutations == 1

\* The saves up to which the chain of one commit is followed.
MaxChain == 3

\* Longest code, in characters, the sanitizer is run on.
MaxCodeLen == 6

-----------------------------------------------------------------------------
(* Text helpers                                                            *)

Last(s) == s[Len(s)]

Front(s) == SubSeq(s, 1, Len(s) - 1)

\* Index of the last "/" token of s, 0 when there is none.
LastSlash(s) ==
    LET idx == {i \in 1..Len(s) : s[i] = "/"}
    IN  IF idx = {} THEN 0 ELSE CHOOSE i \in idx : \A j \in idx : j <= i

\* String.prototype.split('/'): the segments between the "/" tokens.
RECURSIVE Split(_)
Split(s) ==
    LET k == LastSlash(s)
    IN  IF k = 0 THEN <<s>>
        ELSE Append(Split(SubSeq(s, 1, k - 1)), SubSeq(s, k + 1, Len(s)))

\* Array.prototype.join('/').
RECURSIVE Join(_)
Join(segs) ==
    IF Len(segs) = 0 THEN <<>>
    ELSE IF Len(segs) = 1 THEN segs[1]
    ELSE Join(Front(segs)) \o <<"/">> \o Last(segs)

-----------------------------------------------------------------------------
(* new URL(importPath, base).pathname for a file:// base                   *)

\* The URL path state: ".." shortens the path, "." is skipped, and either one
\* in last position leaves an empty last segment; any other segment is pushed.
RECURSIVE UrlPathSegments(_, _, _)
UrlPathSegments(path, segs, i) ==
    IF i > Len(segs) THEN path
    ELSE LET seg    == segs[i]
             isLast == i = Len(segs)
             next   == IF seg = <<"..">>
                         THEN LET cut == IF Len(path) > 0 THEN Front(path) ELSE path
                              IN  IF isLast THEN Append(cut, <<>>) ELSE cut
                       ELSE IF seg = <<".">>
                         THEN IF isLast THEN Append(path, <<>>) ELSE path
                       ELSE Append(path, seg)
         IN  UrlPathSegments(next, segs, i + 1)

\* pathname of the URL `ref` resolved against file://<dir>/ : a reference that
\* starts with "/" replaces the whole path, an empty one keeps the base path,
\* any other is resolved against the base path without its last segment.
UrlPathname(ref, dir) ==
    LET basePath == UrlPathSegments(<<>>, Tail(Split(dir \o <<"/">>)), 1)
        path     == IF ref = <<>> THEN basePath
                    ELSE IF Head(ref) = "/"
                      THEN UrlPathSegments(<<>>, Tail(Split(ref)), 1)
                    ELSE UrlPathSegments(Front(basePath), Split(ref), 1)
    IN  <<"/">> \o Join(path)

-----------------------------------------------------------------------------
(* The stage-3 module loader: customRequire of runProject                  *)

\* importerPath.split('/'); pop(); join('/')
ImporterDir(importerPath) == Join(Front(Split(importerPath)))

baseResolvedPath(importerPath, importPath) ==
    UrlPathname(importPath, ImporterDir(importerPath))

\* Variant of possiblePaths: '.ts' probed before '.tsx'.
possiblePathsTsFirst(base) ==
    << base,
       base \o <<".ts">>,
       base \o <<".tsx">>,
       base \o <<"/", "index", ".ts">>,
       base \o <<"/", "index", ".tsx">> >>

possiblePaths(base) ==
    << base,
       base \o <<".tsx">>,
       base \o <<".ts">>,
       base \o <<"/", "index", ".tsx">>,
       base \o <<"/", "index", ".ts">> >>

\* Variant of HasOwnProperty: a truthiness test, projectFiles[p], in place of
\* the key test.
HasTruthyContent(files, p) ==
    p \in DOMAIN files /\ files[p] \notin {"", "<undefined>"}

\* projectFiles.hasOwnProperty(p)
HasOwnProperty(files, p) == p \in DOMAIN files

\* finalResolvedPath stays null when no candidate is a key.
NotFound == <<"<null>">>

\* for (const p of possiblePaths) { if (hasOwnProperty) { final = p; break } }
RECURSIVE ProbeFrom(_, _, _)
ProbeFrom(files, cands, i) ==
    IF i > Len(cands) THEN NotFound
    ELSE IF HasOwnProperty(files, cands[i]) THEN cands[i]
    ELSE ProbeFrom(files, cands, i + 1)

finalResolvedPath(files, importerPath, importPath) ==
    ProbeFrom(files, possiblePaths(baseResolvedPath(importerPath, importPath)), 1)

\* if (!finalResolvedPath): null, or the empty string
ModuleNotFound(resolved) == resolved = NotFound \/ resolved = <<>>

-----------------------------------------------------------------------------
(* File contents.  A content is named by a string; Program gives what the  *)
(* transpiled body does when the loader runs it: the requires it issues,   *)
(* in order, the default export it assigns, or a throw.  Undefined is the  *)
(* JavaScript value undefined stored under a key.                          *)

Undefined == "<undefined>"

Stmt(op, arg) == [op |-> op, arg |-> arg]

\* Babel.transform succeeds on the content.
Compiles(content) == content \notin {"bad", Undefined}

Program(content) ==
    CASE content = ""      -> <<>>
      [] content = "fn"    -> << Stmt("default", <<"function">>) >>
      [] content = "obj"   -> << Stmt("default", <<"object">>) >>
      [] content = "throw" -> << Stmt("throw", <<>>) >>
      [] content = "crash" -> << Stmt("default", <<"function">>) >>
      [] content = "os"    -> << Stmt("require", <<"@google/genai">>),
                                 Stmt("default", <<"function">>) >>
      [] content = "kernel" ->
            << Stmt("require", <<"..", "/", "components", "/", "FileExplorer">>),
               Stmt("require", <<"..", "/", "components", "/", "Editor">>),
               Stmt("require", <<"..", "/", "components", "/", "EvolveIcon">>),
               Stmt("default", <<"function">>) >>
      [] content = "reqA"  -> << Stmt("require", <<"/", "a">>),
                                 Stmt("default", <<"function">>) >>
      [] content = "reqB"  -> << Stmt("require", <<".", "/", "b">>),
                                 Stmt("default", <<"function">>) >>
      [] content = "reqApp" -> << Stmt("require", <<".", "/", "App">>),
                                  Stmt("default", <<"function">>) >>
      [] OTHER             -> <<>>

\* The default export of the content is a component that throws when React
\* renders it.
RenderThrows(content) == content = "crash"

\* The capability binding returned for 'react'; module cells are 1, 2, ...
ReactRef == 0

NoRef == -1

\* State of one pass: moduleCache maps a resolved path to its cell, cells[r]
\* is the default export of cell r's exports object, exc the exception in
\* flight ("" when none), ret the value returned by the last call, depth the
\* number of customRequire frames on the stack, trace what happened.
NewPass ==
    [moduleCache |-> <<>>, cells |-> <<>>, exc |-> "", ret |-> NoRef,
     depth |-> 0, trace |-> <<>>]

Event(ev, importer, importPath, path, ref) ==
    [ev |-> ev, importer |-> importer, importPath |-> importPath,
     path |-> path, ref |-> ref]

Throw(st, exc) == [st EXCEPT !.exc = exc, !.ret = NoRef]

RECURSIVE customRequire(_, _, _, _)
RECURSIVE RunBody(_, _, _, _, _, _)
RECURSIVE RunBodyContinues(_, _, _, _, _, _)
RECURSIVE RunBodyEntryScoped(_, _, _, _, _, _)

\* Variant of CachedCell: the cache is never consulted.
CachedCellIgnored(st, final) == NoRef

\* if (moduleCache[final]) return moduleCache[final].exports;
CachedCell(st, final) ==
    IF final \in DOMAIN st.moduleCache THEN st.moduleCache[final] ELSE NoRef

\* Variant of LoadModule: the cell is put into moduleCache only after the
\* body has run.
LoadModuleCacheAfterRun(files, st, final) ==
    LET ref == Len(st.cells) + 1
        st1 == [st EXCEPT !.cells = Append(@, "undefined"),
                          !.trace = Append(@, Event("exec", <<>>, <<>>, final, ref))]
        st2 == RunBody(files, st1, final, ref, Program(files[final]), 1)
    IN  IF st2.exc # "" THEN st2
        ELSE [st2 EXCEPT !.moduleCache = (final :> ref) @@ @, !.ret = ref]

\* const module = { exports: {} }; moduleCache[final] = module;
\* factory(React, scopedRequire, module, module.exports); return module.exports;
\* scopedRequire is customRequire closed over final.
LoadModule(files, st, final) ==
    LET ref == Len(st.cells) + 1
        st1 == [st EXCEPT !.moduleCache = (final :> ref) @@ @,
                          !.cells = Append(@, "undefined"),
                          !.trace = Append(@, Event("exec", <<>>, <<>>, final, ref))]
        st2 == RunBody(files, st1, final, ref, Program(files[final]), 1)
    IN  IF st2.exc # "" THEN st2 ELSE [st2 EXCEPT !.ret = ref]

\* Variant of customRequire: the test for 'react' comes after the probe, and
\* only a specifier that no file matches is taken for the capability.
customRequireProbesFirst(files, st, importerPath, importPath) ==
    IF st.depth >= StackLimit THEN Throw(st, "RangeError")
    ELSE
      LET final == finalResolvedPath(files, importerPath, importPath)
          in    == [st EXCEPT !.depth = @ + 1]
          out   == IF ModuleNotFound(final) THEN Throw(in, "ModuleNotFound")
                   ELSE IF CachedCell(in, final) # NoRef
                     THEN [in EXCEPT !.ret = CachedCell(in, final)]
                   ELSE IF ~Compiles(files[final]) THEN Throw(in, "CompileError")
                   ELSE LoadModule(files, in, final)
      IN  IF ModuleNotFound(final) /\ importPath = <<"react">>
            THEN [st EXCEPT !.ret = ReactRef]
          ELSE [out EXCEPT !.depth = st.depth,
                      !.trace = Append(@, Event("return", importerPath, importPath,
                                                final, out.ret))]

customRequire(files, st, importerPath, importPath) ==
    IF st.depth >= StackLimit THEN Throw(st, "RangeError")
    ELSE IF importPath = <<"react">> THEN [st EXCEPT !.ret = ReactRef]
    ELSE
      LET final == finalResolvedPath(files, importerPath, importPath)
          in    == [st EXCEPT !.depth = @ + 1]
          out   == IF ModuleNotFound(final) THEN Throw(in, "ModuleNotFound")
                   ELSE IF CachedCell(in, final) # NoRef
                     THEN [in EXCEPT !.ret = CachedCell(in, final)]
                   ELSE IF ~Compiles(files[final]) THEN Throw(in, "CompileError")
                   ELSE LoadModule(files, in, final)
      IN  [out EXCEPT !.depth = st.depth,
                      !.trace = Append(@, Event("return", importerPath, importPath,
                                                final, out.ret))]

\* Variant of RunBody: the body goes on with its next statement after a
\* statement has thrown.
RunBodyContinues(files, st, path, ref, body, i) ==
    IF i > Len(body) THEN st
    ELSE LET stmt == body[i]
             next == CASE stmt.op = "require" ->
                            [customRequire(files, st, path, stmt.arg)
                                EXCEPT !.exc = IF st.exc # "" THEN st.exc ELSE @]
                      [] stmt.op = "default" ->
                            [st EXCEPT !.cells[ref] = stmt.arg[1]]
                      [] OTHER -> Throw(st, "RuntimeError")
         IN  RunBodyContinues(files, next, path, ref, body, i + 1)

\* Variant of RunBody: every module is handed one require, closed over the
\* entry path '/boot/kernel.tsx'.
RunBodyEntryScoped(files, st, path, ref, body, i) ==
    IF i > Len(body) \/ st.exc # "" THEN st
    ELSE LET stmt == body[i]
             next == CASE stmt.op = "require" ->
                            customRequire(files, st,
                                          <<"/", "boot", "/", "kernel", ".tsx">>,
                                          stmt.arg)
                      [] stmt.op = "default" ->
                            [st EXCEPT !.cells[ref] = stmt.arg[1]]
                      [] OTHER -> Throw(st, "RuntimeError")
         IN  RunBodyEntryScoped(files, next, path, ref, body, i + 1)

\* The transpiled body of the module at `path`, statement i onwards.
RunBody(files, st, path, ref, body, i) ==
    IF i > Len(body) \/ st.exc # "" THEN st
    ELSE LET stmt == body[i]
             next == CASE stmt.op = "require" ->
                            customRequire(files, st, path, stmt.arg)
                      [] stmt.op = "default" ->
                            [st EXCEPT !.cells[ref] = stmt.arg[1]]
                      [] OTHER -> Throw(st, "RuntimeError")
         IN  RunBody(files, next, path, ref, body, i + 1)

-----------------------------------------------------------------------------
(* The bundle of LivePreview: executeModule, require and resolvePath       *)

\* path.endsWith('.ts') || path.endsWith('.tsx')
IsScript(path) == Len(path) > 0 /\ Last(path) \in {".ts", ".tsx"}

\* Babel.transform(content, {plugins: ['transform-modules-commonjs']}).code:
\* the plugin, in its default strict mode, puts the "use strict" directive in
\* front of the translated body, so the code of an empty file is not empty.
BabelTransform(content) ==
    IF content = "" THEN <<"use strict">> ELSE <<"use strict", content>>

\* What the transpiled code does when it is run.
CodeProgram(code) == IF Len(code) = 2 THEN Program(code[2]) ELSE <<>>

\* Some file of the for-in loop makes Babel.transform throw.
TranspileFails(vfs) ==
    \E p \in DOMAIN vfs : IsScript(p) /\ ~Compiles(vfs[p])

\* transpiledVFS, which the bundle text copies into `modules`.
transpiledVFS(vfs) ==
    [p \in {q \in DOMAIN vfs : IsScript(q)} |-> BabelTransform(vfs[p])]

\* modules[path] is truthy
HasModule(modules, path) == path \in DOMAIN modules /\ modules[path] # <<>>

\* for (const part of parts) { '..' pops, '.' is skipped, else push }
RECURSIVE ResolveParts(_, _, _)
ResolveParts(stack, parts, i) ==
    IF i > Len(parts) THEN stack
    ELSE LET part == parts[i]
             next == IF part = <<"..">>
                       THEN (IF Len(stack) > 0 THEN Front(stack) ELSE stack)
                     ELSE IF part = <<".">> THEN stack
                     ELSE Append(stack, part)
         IN  ResolveParts(next, parts, i + 1)

\* relative.startsWith('.')
StartsWithDot(relative) ==
    Len(relative) > 0 /\ Head(relative) \in {".", "..", ".ts", ".tsx"}

resolvePath(modules, base, relative) ==
    IF ~StartsWithDot(relative) THEN relative
    ELSE LET stack == ResolveParts(Front(Split(base)), Split(relative), 1)
             path  == Join(stack)
         IN  IF IsScript(path) THEN path
             ELSE IF HasModule(modules, path \o <<".tsx">>) THEN path \o <<".tsx">>
             ELSE IF HasModule(modules, path \o <<".ts">>) THEN path \o <<".ts">>
             ELSE path

\* The binding returned for '@google/genai'.
GenAIRef == -2

RECURSIVE BundleRequire(_, _, _, _)
RECURSIVE RunBundleBody(_, _, _, _, _, _)

\* const module = { exports: {} }; moduleCache[absolutePath] = module;
\* executeModule(absolutePath, modules[absolutePath]); return module.exports;
executeModule(modules, st, absolutePath) ==
    LET ref == Len(st.cells) + 1
        st1 == [st EXCEPT !.moduleCache = (absolutePath :> ref) @@ @,
                          !.cells = Append(@, "undefined"),
                          !.trace = Append(@, Event("exec", <<>>, <<>>,
                                                    absolutePath, ref))]
        st2 == RunBundleBody(modules, st1, absolutePath, ref,
                             CodeProgram(modules[absolutePath]), 1)
    IN  IF st2.exc # "" THEN st2 ELSE [st2 EXCEPT !.ret = ref]

\* The require handed to the module at `path`.
BundleRequire(modules, st, path, relativePath) ==
    IF st.depth >= StackLimit THEN Throw(st, "RangeError")
    ELSE IF relativePath = <<"react">> THEN [st EXCEPT !.ret = ReactRef]
    ELSE IF relativePath = <<"@google/genai">> THEN [st EXCEPT !.ret = GenAIRef]
    ELSE
      LET absolutePath == resolvePath(modules, path, relativePath)
          found == HasModule(modules, absolutePath)
          in    == [st EXCEPT !.depth = @ + 1]
          out   == IF ~found THEN Throw(in, "ModuleNotFound")
                   ELSE IF CachedCell(in, absolutePath) # NoRef
                     THEN [in EXCEPT !.ret = CachedCell(in, absolutePath)]
                   ELSE executeModule(modules, in, absolutePath)
      IN  [out EXCEPT !.depth = st.depth,
                      !.trace = Append(@, Event("return", path, relativePath,
                                                IF found THEN absolutePath
                                                ELSE NotFound, out.ret))]

\* new Function('require', 'module', 'exports', 'process', code)(...)
RunBundleBody(modules, st, path, ref, body, i) ==
    IF i > Len(body) \/ st.exc # "" THEN st
    ELSE LET stmt == body[i]
             next == CASE stmt.op = "require" ->
                            BundleRequire(modules, st, path, stmt.arg)
                      [] stmt.op = "default" ->
                            [st EXCEPT !.cells[ref] = stmt.arg[1]]
                      [] OTHER -> Throw(st, "RuntimeError")
         IN  RunBundleBody(modules, next, path, ref, body, i + 1)

-----------------------------------------------------------------------------
(* LivePreview: bundleAndRun                                               *)

IndexPath == <<"/", "index", ".tsx">>
AppPath == <<"/", "App", ".tsx">>
IndexHtmlPath == <<"/", "index", ".html">>

\* The script of the bundle, from "Execute entry point" on: the outcome of
\* running the entry module, "" when it ran to its end.
RunEntry(modules) ==
    LET st0 == [NewPass EXCEPT !.moduleCache = (IndexPath :> 1),
                               !.cells = <<"undefined">>]
    IN  RunBundleBody(modules, st0, IndexPath, 1,
                      CodeProgram(modules[IndexPath]), 1).exc

\* vfs['/index.html'] || '<body></body>'
HtmlContent(vfs) ==
    IF IndexHtmlPath \in DOMAIN vfs /\ vfs[IndexHtmlPath] \notin {"", Undefined}
    THEN vfs[IndexHtmlPath] ELSE "<body></body>"

\* htmlContent.replace('</body>', `<script>${bundle}</script></body>`) puts
\* the bundle into the document only when the text has a '</body>'.
HasBodyClose(html) == html \in {"<body></body>", "html"}

\* LivePreview's state: error is its error state ("" for null), wrote tells
\* whether the last run called doc.write, bundled whether the document it
\* wrote holds the bundle, ran the outcome of the bundle's script inside the
\* iframe ("<none>" when no script ran).
NoPreview == [error |-> "", wrote |-> FALSE, bundled |-> FALSE, ran |-> "<none>"]

\* Variant of bundleAndRun: the test of transpiledVFS[entryPoint] is missing,
\* and the bundle runs an entry whose code is undefined.
bundleAndRunNoEntryCheck(vfs) ==
    IF TranspileFails(vfs) THEN [NoPreview EXCEPT !.error = "CompileError"]
    ELSE LET modules == transpiledVFS(vfs)
             bundled == HasBodyClose(HtmlContent(vfs))
         IN  [error |-> "", wrote |-> TRUE, bundled |-> bundled,
              ran |-> IF ~bundled THEN "<none>"
                      ELSE IF ~HasModule(modules, IndexPath) THEN ""
                      ELSE RunEntry(modules)]

\* bundleAndRun of the effect on [vfs].  A throw inside the try block sets the
\* error state; a throw of the script that doc.write runs is raised inside the
\* iframe and does not reach the catch.
bundleAndRun(vfs) ==
    IF TranspileFails(vfs) THEN [NoPreview EXCEPT !.error = "CompileError"]
    ELSE LET modules == transpiledVFS(vfs)
             bundled == HasBodyClose(HtmlContent(vfs))
         IN  IF ~HasModule(modules, IndexPath)
               THEN [NoPreview EXCEPT
                        !.error = "Entry point /index.tsx not found in VFS."]
             ELSE [error |-> "", wrote |-> TRUE, bundled |-> bundled,
                   ran |-> IF bundled THEN RunEntry(modules) ELSE "<none>"]

-----------------------------------------------------------------------------
(* Loader runs: one customRequire call on a VFS drawn from a bounded set   *)

LoadPaths ==
    { <<"/", "a">>, <<"/", "a", ".tsx">>, <<"/", "a", ".ts">>,
      <<"/", "a", "/", "index", ".tsx">>, <<"/", "a", "/", "index", ".ts">>,
      <<"/", "b", ".tsx">>, <<"/", "boot", "/", "a", ".ts">>,
      <<"/", "react", ".tsx">> }

LoadContents == {"", "fn", "reqA", "reqB", "bad"}

LoadImporters ==
    { <<"/", "boot", "/", "kernel", ".tsx">>, <<"/", "a", ".tsx">> }

LoadImportPaths ==
    { <<"/", "a">>, <<".", "/", "a">>, <<"..", "/", "a">>, <<"b">>, <<"react">>,
      <<"@google/genai">> }

LoadVfs ==
    UNION { [D -> LoadContents] :
              D \in {S \in SUBSET LoadPaths : Cardinality(S) <= MaxLoadFiles} }

NoRun == [NewPass EXCEPT !.exc = "<not run>"]

LoadInit ==
    /\ lvfs \in LoadVfs
    /\ limporter \in LoadImporters
    /\ limportPath \in LoadImportPaths
    /\ lresult = NoRun
    /\ bresult = NoRun
    /\ lprev = NoRun
    /\ san = <<>>
    /\ ide = <<>>
    /\ store = <<>> /\ sys = <<>> /\ last = <<>>
    /\ serviceCalls = 0 /\ mutations = 0 /\ chain = <<>>

\* customRequire(limporter, limportPath) on a fresh moduleCache.
LoadRun ==
    /\ lresult = NoRun
    /\ lresult' = customRequire(lvfs, NewPass, limporter, limportPath)
    /\ UNCHANGED <<lvfs, limporter, limportPath, bresult, lprev>>
    /\ UNCHANGED <<supervisorVars, ideVars, sanitizeVars>>

\* The bundle built from lvfs, and inside it the module limporter calling
\* require(limportPath) on a fresh moduleCache; no bundle is built when a file
\* does not transpile.
BundleRun ==
    /\ bresult = NoRun
    /\ bresult' = IF TranspileFails(lvfs) THEN Throw(NewPass, "CompileError")
                  ELSE BundleRequire(transpiledVFS(lvfs), NewPass,
                                     limporter, limportPath)
    /\ UNCHANGED <<lvfs, limporter, limportPath, lresult, lprev>>
    /\ UNCHANGED <<supervisorVars, ideVars, sanitizeVars>>

\* Variant of StartPass: the moduleCache object outlives the pass.
StartPassKeepsCache(prev) ==
    [prev EXCEPT !.exc = "", !.ret = NoRef, !.depth = 0, !.trace = <<>>]

\* const moduleCache = {} of a timer callback that runs after the pass `prev`:
\* the objects of prev still exist, the cache that named them does not.
StartPass(prev) ==
    [NewPass EXCEPT !.cells = prev.cells]

\* The next timer callback: runProject is re-created and run again whenever
\* projectFiles is a new object, here one with the same contents.
LoadRerun ==
    /\ lresult # NoRun /\ lprev = NoRun
    /\ lprev' = lresult
    /\ lresult' = customRequire(lvfs, StartPass(lresult), limporter, limportPath)
    /\ UNCHANGED <<lvfs, limporter, limportPath, bresult>>
    /\ UNCHANGED <<supervisorVars, ideVars, sanitizeVars>>

LoadNext == LoadRun \/ BundleRun \/ LoadRerun

SpecLoad == LoadInit /\ [][LoadNext]_vars

-----------------------------------------------------------------------------
(* The VFS and the persistent store                                        *)

BootloaderPath == <<"/", "boot", "/", "bootloader", ".tsx">>
KernelPath == <<"/", "boot", "/", "kernel", ".tsx">>
FileExplorerPath == <<"/", "components", "/", "FileExplorer", ".tsx">>
EditorPath == <<"/", "components", "/", "Editor", ".tsx">>
EvolveIconPath == <<"/", "components", "/", "EvolveIcon", ".tsx">>
LoadingSpinnerPath == <<"/", "components", "/", "LoadingSpinner", ".tsx">>

INITIAL_PROJECT ==
    (BootloaderPath :> "os") @@ (KernelPath :> "kernel") @@
    (FileExplorerPath :> "fn") @@ (EditorPath :> "fn") @@
    (EvolveIconPath :> "fn") @@ (LoadingSpinnerPath :> "fn")

\* path.startsWith('/boot/'): FileExplorer marks such a file and renders no
\* delete button for it.
StartsWithBoot(path) ==
    Len(path) >= 3 /\ SubSeq(path, 1, 3) = <<"/", "boot", "/">>

\* newFiles[p] = c on a copy of files
Put(files, p, c) == (p :> c) @@ files

\* delete newFiles[p] on a copy of files
Remove(files, p) == [q \in DOMAIN files \ {p} |-> files[q]]

\* JSON.parse(JSON.stringify(files)): a key whose value is undefined is dropped.
Stringify(files) ==
    [q \in {k \in DOMAIN files : files[k] # Undefined} |-> files[q]]

\* localStorage.getItem(LOCAL_STORAGE_KEY) === null
NoItem == (<<"<null>">> :> "<null>")

\* States of the store the page can find on start besides NoItem and the JSON
\* text of an object, which is kept parsed: getItem throws; the item is the
\* empty string; it is text JSON.parse rejects; it is the JSON text of null;
\* it is the JSON text of a number.
Unreadable == (<<"<getItem throws>">> :> "<throws>")
EmptyText == (<<"<text>">> :> "")
Garbage == (<<"<text>">> :> "{not json")
JsonNull == (<<"<json>">> :> "null")
JsonNumber == (<<"<json>">> :> "5")

\* The initialiser of App's projectFiles state:
\* try { const saved = getItem(KEY);
\*       return saved ? JSON.parse(saved) : INITIAL_PROJECT; }
\* catch (e) { return INITIAL_PROJECT; }
\* JSON.parse of the text of null or of a number returns that value.
LoadProject(item) ==
    IF item = Unreadable THEN INITIAL_PROJECT
    ELSE IF item \in {NoItem, EmptyText} THEN INITIAL_PROJECT
    ELSE IF item = Garbage THEN INITIAL_PROJECT
    ELSE item

-----------------------------------------------------------------------------
(* React state.  w = [store, sys]; sys.app is App's state, sys.boundary    *)
(* ErrorBoundary's, sys.os Bootloader's and sys.kernel Kernel's.  The state *)
(* of a component that is not rendered does not exist: it is kept at its   *)
(* useState initial values, which is what the next mount starts from.      *)

\* The count of setItem calls and of step-2 runs of one commit.
NoSteps == [saves |-> 0, compiles |-> 0]

UnmountedOs ==
    [mounted |-> FALSE, projectFiles |-> <<>>, KernelComponent |-> FALSE,
     isEvolving |-> FALSE, bootError |-> "", timers |-> <<>>,
     awaiting |-> FALSE, passRead |-> <<>>]

\* useState(initialFiles), useState(null), useState(false), useState(null), and
\* the mount run of the runProject effect: setTimeout(pass, 50).  passRead is
\* the projectFiles the last finished pass of this instance closed over.
MountedOs(initialFiles) ==
    [mounted |-> TRUE, projectFiles |-> initialFiles, KernelComponent |-> FALSE,
     isEvolving |-> FALSE, bootError |-> "", timers |-> <<initialFiles>>,
     awaiting |-> FALSE, passRead |-> <<>>]

UnmountedKernel == [isLoading |-> FALSE]

\* App's useState initialisers.  compiledFrom is the projectFiles the installed
\* BootloaderComponent was compiled from.
AppInit(item) ==
    [app |-> [projectFiles |-> LoadProject(item),
              externalModules |-> FALSE,
              BootloaderComponent |-> FALSE,
              compiledFrom |-> <<>>,
              biosError |-> ""],
     boundary |-> [hasError |-> FALSE],
     os |-> UnmountedOs,
     kernel |-> UnmountedKernel,
     stale |-> <<>>]

\* App renders <ErrorBoundary><BootloaderComponent/></ErrorBoundary> only past
\* its two early returns, and ErrorBoundary renders its children unless hasError.
BoundaryRendered(sy) ==
    /\ sy.app.biosError = ""
    /\ sy.app.BootloaderComponent
    /\ sy.app.externalModules

OsRendered(sy) == BoundaryRendered(sy) /\ ~sy.boundary.hasError

\* Variant of KernelRendered: Bootloader lacks the early return of the
\* spinner while isEvolving, and renders the Kernel under the overlay.
KernelRenderedWhileEvolving(sy) ==
    /\ OsRendered(sy) /\ sy.os.mounted
    /\ sy.os.bootError = ""
    /\ sy.os.KernelComponent

\* Bootloader renders <KernelComponent/> only past its early returns.
KernelRendered(sy) ==
    /\ OsRendered(sy) /\ sy.os.mounted
    /\ ~sy.os.isEvolving
    /\ sy.os.bootError = ""
    /\ sy.os.KernelComponent

\* A Bootloader instance is unmounted: clearTimeout is never called, so the
\* timers it set stay scheduled.  sy.stale are the pending timers of unmounted
\* instances, oldest first.
Unmount(sy) == [sy EXCEPT !.stale = @ \o sy.os.timers, !.os = UnmountedOs]

\* The commit of a render: what is no longer rendered is unmounted.
Render(w) ==
    LET sy == w.sys
        s1 == IF BoundaryRendered(sy) THEN sy
              ELSE [sy EXCEPT !.boundary = [hasError |-> FALSE]]
        s2 == IF OsRendered(s1) THEN s1 ELSE Unmount(s1)
        s3 == IF KernelRendered(s2) THEN s2
              ELSE [s2 EXCEPT !.kernel = UnmountedKernel]
    IN  [w EXCEPT !.sys = s3]

-----------------------------------------------------------------------------
(* The BIOS: App                                                           *)

\* Variant of biosRequire: only 'react' is registered.
biosRequireReactOnly(path) ==
    IF path = <<"react">> THEN ReactRef ELSE NoRef

\* biosRequire(path): externalModules[path] for the two registered names, a
\* throw (NoRef) for any other path; projectFiles is not looked at.
biosRequire(path) ==
    IF path = <<"react">> THEN ReactRef
    ELSE IF path = <<"@google/genai">> THEN GenAIRef
    ELSE NoRef

\* The factory call of the bootloader module: the default export the body
\* leaves, or "<threw>".
RECURSIVE BiosRunBody(_, _, _)
BiosRunBody(body, i, default) ==
    IF i > Len(body) THEN default
    ELSE LET stmt == body[i]
         IN  CASE stmt.op = "require" ->
                    IF biosRequire(stmt.arg) # NoRef
                    THEN BiosRunBody(body, i + 1, default)
                    ELSE "<threw>"
               [] stmt.op = "default" -> BiosRunBody(body, i + 1, stmt.arg[1])
               [] OTHER -> "<threw>"

\* The try block of step 2: "" when mainComponent is a function, else the
\* message handed to setBiosError.
BootloaderFailure(files) ==
    LET bootloaderCode ==
            IF BootloaderPath \in DOMAIN files THEN files[BootloaderPath]
            ELSE Undefined
    IN  IF files = JsonNull
            THEN "Cannot read properties of null (reading '/boot/bootloader.tsx')"
        ELSE IF bootloaderCode \in {"", Undefined}
            THEN "Critical file /boot/bootloader.tsx not found in project."
        ELSE IF ~Compiles(bootloaderCode) THEN "Babel.transform failed"
        ELSE LET main == BiosRunBody(Program(bootloaderCode), 1, "undefined")
             IN  IF main = "<threw>" THEN "bootloader module threw"
                 ELSE IF main # "function"
                   THEN "Bootloader component did not export a default React component."
                 ELSE ""

\* Variant of getDerivedStateFromError: catching the error also removes the
\* persisted item, as handleReset does.
getDerivedStateFromErrorResets(w) ==
    Render([w EXCEPT !.sys.boundary.hasError = TRUE, !.store = NoItem])

\* ErrorBoundary.getDerivedStateFromError: a throw while React renders a child
\* of the boundary sets hasError, and render() returns the fallback.
getDerivedStateFromError(w) ==
    Render([w EXCEPT !.sys.boundary.hasError = TRUE])

\* setBiosError(msg): App returns the 'Fatal BIOS Error!' screen.
SetBiosError(w, msg) == Render([w EXCEPT !.sys.app.biosError = msg])

RECURSIVE saveProjectFiles(_, _, _, _)

\* A new BootloaderComponent is a new element type: the old Bootloader is
\* unmounted and a new one mounted with initialFiles = App's projectFiles.  Its
\* mount effects call onSaveFiles(projectFiles) and runProject().  An awaited
\* call of the unmounted instance only sets state of a component that is
\* gone, which React ignores: it is dropped with the instance.  The timers
\* of the unmounted instance stay scheduled (sys.stale).
MountBootloader(w, oks) ==
    IF ~OsRendered(w.sys) THEN Render(w)
    ELSE IF RenderThrows(w.sys.app.projectFiles[BootloaderPath])
      THEN getDerivedStateFromError([w EXCEPT !.sys = Unmount(@)])
    ELSE LET m == [w EXCEPT !.sys.stale = @ \o w.sys.os.timers,
                            !.sys.os = MountedOs(w.sys.app.projectFiles),
                            !.sys.kernel = UnmountedKernel]
         IN  saveProjectFiles(m, m.sys.os.projectFiles, FALSE, oks)

\* Variant of Stage2Effect: step 2 does not wait for externalModules.
Stage2EffectNoWait(w, oks) ==
    LET failure == BootloaderFailure(w.sys.app.projectFiles)
        cleared == [w EXCEPT !.sys.app.BootloaderComponent = FALSE,
                             !.sys.app.biosError = ""]
    IN  IF failure # "" THEN SetBiosError(cleared, failure)
        ELSE MountBootloader(
                 [cleared EXCEPT !.sys.app.BootloaderComponent = TRUE,
                                 !.sys.app.compiledFrom =
                                       w.sys.app.projectFiles], oks)

\* Step 2 effect, run on mount and when projectFiles or externalModules changed.
Stage2Effect(w, oks) ==
    IF ~w.sys.app.externalModules THEN w
    ELSE LET failure == BootloaderFailure(w.sys.app.projectFiles)
             cleared == [w EXCEPT !.sys.app.BootloaderComponent = FALSE,
                                  !.sys.app.biosError = "",
                                  !.chain.compiles = @ + 1]
         IN  IF failure # "" THEN SetBiosError(cleared, failure)
             ELSE MountBootloader(
                      [cleared EXCEPT !.sys.app.BootloaderComponent = TRUE,
                                      !.sys.app.compiledFrom =
                                            w.sys.app.projectFiles], oks)

\* Variant of saveProjectFiles: step 2 does not depend on projectFiles, so a
\* saved VFS does not re-run it.
saveProjectFilesNoRecompile(w, files, isNewObject, oks) ==
    IF ~oks[1]
      THEN SetBiosError(w, "Failed to save project files. Check console for details.")
    ELSE [w EXCEPT !.store = Stringify(files), !.sys.app.projectFiles = files]

\* Variant of saveProjectFiles: setProjectFiles is given a copy of files, a new
\* object every time, so every save re-runs step 2.  The chain is followed up
\* to MaxChain saves; a write for which oks has no entry succeeds.
saveProjectFilesCopies(w, files, isNewObject, oks) ==
    IF oks # <<>> /\ ~oks[1]
      THEN SetBiosError([w EXCEPT !.chain.saves = @ + 1],
                        "Failed to save project files. Check console for details.")
    ELSE LET w1 == [w EXCEPT !.store = Stringify(files),
                             !.sys.app.projectFiles = files,
                             !.chain.saves = @ + 1]
         IN  IF w1.chain.saves >= MaxChain THEN w1
             ELSE Stage2Effect(w1, IF oks = <<>> THEN <<>> ELSE Tail(oks))

\* saveProjectFiles(files): oks[1] tells whether this setItem succeeds, the
\* rest of oks is for the writes that follow from it.  setProjectFiles(files)
\* re-renders App, and re-runs step 2, only when files is a new object.
saveProjectFiles(w, files, isNewObject, oks) ==
    IF ~oks[1]
      THEN SetBiosError([w EXCEPT !.chain.saves = @ + 1],
                        "Failed to save project files. Check console for details.")
    ELSE LET w1 == [w EXCEPT !.store = Stringify(files),
                             !.sys.app.projectFiles = files,
                             !.chain.saves = @ + 1]
         IN  IF isNewObject THEN Stage2Effect(w1, Tail(oks)) ELSE w1

-----------------------------------------------------------------------------
(* The OS layer: Bootloader                                                *)

\* A state update of projectFiles to a new object, its commit and the effects
\* that follow: onSaveFiles(projectFiles), then runProject().
SetProjectFiles(w, newFiles, oks) ==
    LET w1 == [w EXCEPT !.sys.os.projectFiles = newFiles,
                        !.sys.os.bootError = "",
                        !.sys.os.timers = Append(@, newFiles)]
    IN  saveProjectFiles(Render(w1), newFiles, TRUE, oks)

\* Variant of handleFileChange: the updater returns an object without the
\* spread of prevFiles.
handleFileChangeNoSpread(w, filePath, newContent, oks) ==
    SetProjectFiles(w, Put(<<>>, filePath, newContent), oks)

\* setProjectFiles(prevFiles => ({...prevFiles, [filePath]: newContent}))
handleFileChange(w, filePath, newContent, oks) ==
    SetProjectFiles(w, Put(w.sys.os.projectFiles, filePath, newContent), oks)

\* Variant of KernelPassFailure: the typeof test of the default export is
\* missing.
KernelPassFailureNoTypeCheck(files) ==
    customRequire(files, NewPass, KernelPath, KernelPath).exc

\* The deferred pass of runProject over the projectFiles it closed over.
KernelPassFailure(files) ==
    LET pass == customRequire(files, NewPass, KernelPath, KernelPath)
    IN  IF pass.exc # "" THEN pass.exc
        ELSE IF pass.cells[pass.ret] # "function"
          THEN "Kernel entry point ('/boot/kernel.tsx') did not export a default component."
        ELSE ""

\* Variant of RunPass: the catch block lacks setBootError(e.message).
RunPassNoBootError(w) ==
    LET failure == KernelPassFailure(Head(w.sys.os.timers))
        w1 == [w EXCEPT !.sys.os.timers = Tail(@)]
    IN  Render([w1 EXCEPT !.sys.os.KernelComponent = (failure = ""),
                          !.sys.os.passRead = Head(w.sys.os.timers)])

\* The Kernel renders the components of the modules the pass loaded: the
\* render throws when one of them does.
KernelRenderThrows(files) ==
    LET pass == customRequire(files, NewPass, KernelPath, KernelPath)
    IN  \E p \in DOMAIN pass.moduleCache : RenderThrows(files[p])

\* Variant of RunPass: the catch block schedules the pass again.
RunPassRetries(w) ==
    LET files   == Head(w.sys.os.timers)
        failure == KernelPassFailure(files)
        w1 == [w EXCEPT !.sys.os.timers = Tail(@), !.sys.os.passRead = files]
        w2 == Render(IF failure = ""
                     THEN [w1 EXCEPT !.sys.os.KernelComponent = TRUE]
                     ELSE [w1 EXCEPT !.sys.os.bootError = failure,
                                     !.sys.os.KernelComponent = FALSE,
                                     !.sys.os.timers = Append(@, files)])
    IN  IF KernelRendered(w2.sys) /\ KernelRenderThrows(files)
          THEN getDerivedStateFromError(w2)
        ELSE w2

\* Variant of RunStalePass: the state setters of the pass reach the Bootloader
\* that is mounted now.
RunStalePassSetsState(w) ==
    LET files   == Head(w.sys.stale)
        failure == KernelPassFailure(files)
        w1 == [w EXCEPT !.sys.stale = Tail(@)]
    IN  IF ~w.sys.os.mounted THEN w1
        ELSE Render(IF failure = ""
                    THEN [w1 EXCEPT !.sys.os.KernelComponent = TRUE]
                    ELSE [w1 EXCEPT !.sys.os.bootError = failure,
                                    !.sys.os.KernelComponent = FALSE])

\* The deferred pass of an unmounted Bootloader: it runs over the projectFiles
\* it closed over, and its setKernelComponent or setBootError is a state
\* update of a component that is gone, which React ignores.
RunStalePass(w) == [w EXCEPT !.sys.stale = Tail(@)]

\* The deferred pass of the mounted Bootloader.
RunPass(w) ==
    LET files   == Head(w.sys.os.timers)
        failure == KernelPassFailure(files)
        w1 == [w EXCEPT !.sys.os.timers = Tail(@), !.sys.os.passRead = files]
        w2 == Render(IF failure = ""
                     THEN [w1 EXCEPT !.sys.os.KernelComponent = TRUE]
                     ELSE [w1 EXCEPT !.sys.os.bootError = failure,
                                     !.sys.os.KernelComponent = FALSE])
    IN  IF KernelRendered(w2.sys) /\ KernelRenderThrows(files)
          THEN getDerivedStateFromError(w2)
        ELSE w2

\* handleEvolveRequest up to the await of evolveCode.
BeginEvolve(w, goal) ==
    Render(IF goal = ""
           THEN [w EXCEPT !.sys.os.bootError = "Cannot evolve: goal must be specified."]
           ELSE [w EXCEPT !.sys.os.isEvolving = TRUE,
                          !.sys.os.bootError = "",
                          !.sys.os.awaiting = TRUE])

\* A response of the generative service: generateContent rejects ("error"),
\* or resolves with an empty text, with text that is not JSON, or with the
\* text of an object; a property the object lacks reads as undefined.
UndefinedPath == <<"<undefined>">>

Response(kind, action, filePath, code) ==
    [kind |-> kind, action |-> action, filePath |-> filePath, code |-> code]

\* evolveCode from response.text on: the evolution object, or kind "threw".
Threw == [kind |-> "threw", action |-> "", filePath |-> <<>>, code |-> ""]

ParseEvolution(r) ==
    IF r.kind # "json" THEN Threw
    ELSE IF r.action = "DELETE" THEN [r EXCEPT !.code = ""]
    ELSE r

\* A property key: String(undefined) is 'undefined'.
ToKey(filePath) == IF filePath = UndefinedPath THEN <<"undefined">> ELSE filePath

\* Variant of KnownAction: the switch has no default case.
KnownActionNoDefault(evolution) == TRUE

KnownAction(evolution) == evolution.action \in {"UPDATE", "CREATE", "DELETE"}

\* Variant of ApplyEvolution: the UPDATE/CREATE case lacks its break and falls
\* through into the DELETE case.
ApplyEvolutionFallThrough(prevFiles, evolution) ==
    Remove(prevFiles, ToKey(evolution.filePath))

\* Variant of ApplyEvolution: DELETE assigns the (emptied) code instead of
\* deleting the key.
ApplyEvolutionDeleteAssigns(prevFiles, evolution) ==
    Put(prevFiles, ToKey(evolution.filePath), evolution.code)

\* Variant of ApplyEvolution: UPDATE/CREATE of a path that already holds the
\* code removes the path.
ApplyEvolutionToggles(prevFiles, evolution) ==
    IF evolution.action \in {"UPDATE", "CREATE"}
      THEN IF /\ ToKey(evolution.filePath) \in DOMAIN prevFiles
              /\ prevFiles[ToKey(evolution.filePath)] = evolution.code
             THEN Remove(prevFiles, ToKey(evolution.filePath))
           ELSE Put(prevFiles, ToKey(evolution.filePath), evolution.code)
    ELSE Remove(prevFiles, ToKey(evolution.filePath))

\* The updater passed to setProjectFiles, for an action the switch knows.
ApplyEvolution(prevFiles, evolution) ==
    IF evolution.action \in {"UPDATE", "CREATE"}
      THEN Put(prevFiles, ToKey(evolution.filePath), evolution.code)
    ELSE Remove(prevFiles, ToKey(evolution.filePath))

\* Variant of FinishEvolve: no finally block, so a failed call leaves
\* isEvolving set.
FinishEvolveNoFinally(w, r, oks) ==
    LET evolution == ParseEvolution(r)
        idle      == [w EXCEPT !.sys.os.isEvolving = FALSE,
                               !.sys.os.awaiting = FALSE]
    IN  IF evolution = Threw
          THEN Render([w EXCEPT !.sys.os.awaiting = FALSE,
                                !.sys.os.bootError = "Evolution failed"])
        ELSE IF ~KnownAction(evolution)
          THEN Render([w EXCEPT !.sys.boundary.hasError = TRUE])
        ELSE SetProjectFiles(idle,
                 ApplyEvolution(w.sys.os.projectFiles, evolution), oks)

\* handleEvolveRequest after the await.  The updater runs when React renders
\* Bootloader, not inside the try block, so its throw for an unknown action
\* reaches ErrorBoundary (getDerivedStateFromError) and not the catch.
FinishEvolve(w, r, oks) ==
    LET evolution == ParseEvolution(r)
        idle      == [w EXCEPT !.sys.os.isEvolving = FALSE,
                               !.sys.os.awaiting = FALSE]
    IN  IF evolution = Threw
          THEN Render([idle EXCEPT !.sys.os.bootError = "Evolution failed"])
        ELSE IF ~KnownAction(evolution)
          THEN Render([w EXCEPT !.sys.boundary.hasError = TRUE])
        ELSE SetProjectFiles(idle,
                 ApplyEvolution(w.sys.os.projectFiles, evolution), oks)

\* What the updater committed as Bootloader's projectFiles, if anything.
NothingApplied == (<<"<nothing>">> :> "<nothing>")

Applied(w, r) ==
    LET evolution == ParseEvolution(r)
    IN  IF evolution = Threw THEN NothingApplied
        ELSE IF ~KnownAction(evolution) THEN NothingApplied
        ELSE ApplyEvolution(w.sys.os.projectFiles, evolution)

-----------------------------------------------------------------------------
(* The supervisor as a state machine                                       *)

\* An operation starts from the store and the React state; w.chain counts
\* what its commit does.
World == [store |-> store, sys |-> sys, chain |-> NoSteps]

SetWorld(w) == store' = w.store /\ sys' = w.sys /\ chain' = w.chain

EditContents == {"", "fn", "obj", "bad", "crash"}

EvolutionPaths == {BootloaderPath, KernelPath, <<"/", "a", ".tsx">>}

Responses ==
    { Response(k, "", UndefinedPath, Undefined) : k \in {"error", "empty", "nonjson"} }
    \cup
    { Response("json", a, p, c) :
        a \in {"UPDATE", "CREATE", "DELETE", "RENAME"},
        p \in EvolutionPaths \cup {UndefinedPath},
        c \in EditContents \cup {Undefined} }

SaveOutcomes == {<<TRUE, TRUE>>, <<TRUE, FALSE>>, <<FALSE, FALSE>>}

NoResponse == Response("none", "", UndefinedPath, Undefined)

Did(op, r, before, applied, oks) ==
    [op |-> op, resp |-> r, before |-> before, applied |-> applied, oks |-> oks,
     calls |-> serviceCalls]

\* The page after its first commit: App's initial state, then its mount
\* effects.  Step 1 starts the import, whose settling is DepsLoaded or
\* DepsFailed; step 2 runs with externalModules still null.
AppMounted(item) ==
    Stage2Effect([store |-> item, sys |-> AppInit(item), chain |-> NoSteps], <<>>)

Init ==
    /\ store = NoItem
    /\ sys = AppMounted(store).sys
    /\ serviceCalls = 0
    /\ mutations = 0
    /\ chain = NoSteps
    /\ last = Did("init", NoResponse, <<>>, NothingApplied, <<>>)
    /\ lvfs = <<>> /\ limporter = <<>> /\ limportPath = <<>> /\ lresult = NoRun
    /\ bresult = NoRun
    /\ lprev = NoRun
    /\ san = <<>>
    /\ ide = <<>>

ImportPending == ~sys.app.externalModules /\ sys.app.biosError = ""

\* import('@google/genai') resolves: setExternalModules, then step 2.
DepsLoaded ==
    /\ ImportPending
    /\ \E oks \in SaveOutcomes :
          /\ oks[2]
          /\ SetWorld(Stage2Effect(
                 [World EXCEPT !.sys.app.externalModules = TRUE], oks))
          /\ last' = Did("deps", NoResponse, <<>>, NothingApplied, oks)
    /\ UNCHANGED <<serviceCalls, mutations>>
    /\ UNCHANGED <<loaderVars, ideVars, sanitizeVars>>

\* import('@google/genai') rejects.
DepsFailed ==
    /\ ImportPending
    /\ SetWorld(SetBiosError(World, "Fatal: Could not load critical dependency"))
    /\ last' = Did("depsFailed", NoResponse, <<>>, NothingApplied, <<>>)
    /\ UNCHANGED <<serviceCalls, mutations>>
    /\ UNCHANGED <<loaderVars, ideVars, sanitizeVars>>

\* The 50 ms timer of an unmounted Bootloader fires.
StaleTimerFires ==
    /\ sys.stale # <<>>
    /\ SetWorld(RunStalePass(World))
    /\ UNCHANGED <<last, serviceCalls, mutations>>
    /\ UNCHANGED <<loaderVars, ideVars, sanitizeVars>>

\* The 50 ms timer of runProject fires.  Timers of the same delay fire in the
\* order they were set, and those of unmounted instances were set earlier.
TimerFires ==
    /\ sys.os.mounted /\ sys.os.timers # <<>>
    /\ sys.stale = <<>>
    /\ SetWorld(RunPass(World))
    /\ last' = Did("pass", NoResponse, Head(sys.os.timers), NothingApplied, <<>>)
    /\ UNCHANGED <<serviceCalls, mutations>>
    /\ UNCHANGED <<loaderVars, ideVars, sanitizeVars>>

\* The user types in the Editor: onFileChange(activeFile, newContent).
EditFile ==
    /\ KernelRendered(sys)
    /\ mutations < MaxMutations
    /\ \E p \in DOMAIN sys.os.projectFiles, c \in EditContents, oks \in SaveOutcomes :
          /\ SetWorld(handleFileChange(World, p, c, oks))
          /\ last' = Did("edit", Response("edit", "", p, c), sys.os.projectFiles,
                          Put(sys.os.projectFiles, p, c), oks)
    /\ mutations' = mutations + 1
    /\ UNCHANGED serviceCalls
    /\ UNCHANGED <<loaderVars, ideVars, sanitizeVars>>

CanCall == serviceCalls < MaxCalls /\ mutations < MaxMutations

\* Kernel.handleEvolve: setIsLoading(true); await onEvolveRequest(activeFile, goal)
ClickEvolve ==
    /\ KernelRendered(sys) /\ ~sys.kernel.isLoading
    /\ CanCall
    /\ SetWorld(BeginEvolve([World EXCEPT !.sys.kernel.isLoading = TRUE], "goal"))
    /\ last' = Did("evolve", NoResponse, sys.os.projectFiles, NothingApplied, <<>>)
    /\ serviceCalls' = serviceCalls + 1
    /\ UNCHANGED mutations
    /\ UNCHANGED <<loaderVars, ideVars, sanitizeVars>>

\* Kernel.handleFileDelete on a file FileExplorer shows a delete button for,
\* and Kernel.handleFileCreate: both call onEvolveRequest with a fixed goal.
ClickDeleteOrCreate ==
    /\ KernelRendered(sys)
    /\ CanCall
    /\ SetWorld(BeginEvolve(World, "goal"))
    /\ last' = Did("deleteOrCreate", NoResponse, sys.os.projectFiles, NothingApplied, <<>>)
    /\ serviceCalls' = serviceCalls + 1
    /\ UNCHANGED mutations
    /\ UNCHANGED <<loaderVars, ideVars, sanitizeVars>>

\* The awaited evolveCode settles.
ServiceResponds ==
    /\ sys.os.mounted /\ sys.os.awaiting
    /\ \E r \in Responses, oks \in SaveOutcomes :
          /\ SetWorld(FinishEvolve(World, r, oks))
          /\ last' = Did("response", r, sys.os.projectFiles, Applied(World, r),
                          IF Applied(World, r) = NothingApplied THEN <<>> ELSE oks)
          /\ mutations' = IF Applied(World, r) = NothingApplied THEN mutations
                          ELSE mutations + 1
    /\ UNCHANGED serviceCalls
    /\ UNCHANGED <<loaderVars, ideVars, sanitizeVars>>

\* A Factory Reset button is on screen.
FactoryResetOffered ==
    \/ sys.app.biosError # ""
    \/ BoundaryRendered(sys) /\ sys.boundary.hasError
    \/ OsRendered(sys) /\ ~sys.os.isEvolving /\ sys.os.bootError # ""
    \/ KernelRendered(sys)

\* window.location.reload(): the page starts again from what the store holds.
Reload(w) == AppMounted(w.store)

\* Variant of handleFactoryReset: the reload is not preceded by removeItem.
handleFactoryResetKeepsItem(w, confirmed) ==
    IF confirmed THEN Reload(w) ELSE w

\* if (window.confirm(...)) { localStorage.removeItem(LOCAL_STORAGE_KEY);
\*                            window.location.reload(); }
handleFactoryReset(w, confirmed) ==
    IF confirmed THEN Reload([w EXCEPT !.store = NoItem]) ELSE w

\* The user clicks Factory Reset and confirms or declines.
FactoryReset ==
    /\ FactoryResetOffered
    /\ \E confirmed \in BOOLEAN :
          /\ SetWorld(handleFactoryReset(World, confirmed))
          /\ last' = Did(IF confirmed THEN "reset" ELSE "resetDeclined",
                          NoResponse, sys.app.projectFiles, NothingApplied, <<>>)
    /\ UNCHANGED <<serviceCalls, mutations>>
    /\ UNCHANGED <<loaderVars, ideVars, sanitizeVars>>

Next ==
    \/ DepsLoaded
    \/ DepsFailed
    \/ StaleTimerFires
    \/ TimerFires
    \/ EditFile
    \/ ClickEvolve
    \/ ClickDeleteOrCreate
    \/ ServiceResponds
    \/ FactoryReset

Spec == Init /\ [][Next]_vars

\* What the store can hold when the page starts: nothing, something that
\* cannot be read or parsed, JSON that is not an object, or a persisted VFS.
StartItems ==
    {NoItem, Unreadable, EmptyText, Garbage, JsonNull, JsonNumber, <<>>,
     INITIAL_PROJECT, Remove(INITIAL_PROJECT, BootloaderPath)}
    \cup { Put(INITIAL_PROJECT, p, c) :
               p \in {BootloaderPath, KernelPath, EditorPath}, c \in EditContents }

\* The page starts on any store.
StartInit ==
    /\ store \in StartItems
    /\ sys = AppMounted(store).sys
    /\ serviceCalls = 0
    /\ mutations = 0
    /\ chain = NoSteps
    /\ last = Did("init", NoResponse, <<>>, NothingApplied, <<>>)
    /\ lvfs = <<>> /\ limporter = <<>> /\ limportPath = <<>> /\ lresult = NoRun
    /\ bresult = NoRun
    /\ lprev = NoRun
    /\ san = <<>>
    /\ ide = <<>>

\* The start of the page up to its first stage-3 outcome, and the reset.
StartNext ==
    \/ DepsLoaded
    \/ DepsFailed
    \/ TimerFires
    \/ FactoryReset

SpecStart == StartInit /\ [][StartNext]_vars

\* The step of TimerFires as the history records it; it is enabled exactly
\* when TimerFires is, and only a step of TimerFires is such a step.
TimerFired ==
    /\ sys.os.mounted /\ sys.os.timers # <<>>
    /\ sys.stale = <<>>
    /\ last' = Did("pass", NoResponse, Head(sys.os.timers), NothingApplied, <<>>)

\* A 50 ms timer fires as long as the page lives: weak fairness of TimerFires
\* and of StaleTimerFires.
FairSpec == Spec /\ WF_last(TimerFired) /\ WF_vars(StaleTimerFires)

-----------------------------------------------------------------------------
(* The IDE of src/boot/kernel.tsx: Kernel with the multi-target protocol   *)
(* and LivePreview.  k is the record kept in `ide`: the vfs prop, Kernel's  *)
(* state, LivePreview's state, and the history of the last operation.      *)

\* The mutate-callback handed to the Kernel: overwrite one path.
onVfsUpdate(vfs, path, content) == Put(vfs, path, content)

\* The batch callback handed to the Kernel: upsert every listed path, in the
\* order of the list.
RECURSIVE onVfsBatchUpdate(_, _)
onVfsBatchUpdate(vfs, changes) ==
    IF changes = <<>> THEN vfs
    ELSE onVfsBatchUpdate(Put(vfs, Head(changes).filePath, Head(changes).content),
                          Tail(changes))

\* The effect of LivePreview on [vfs], run after a commit that changed vfs.
PreviewEffect(k) == [k EXCEPT !.preview = bundleAndRun(k.vfs)]

\* handleEvolve up to the await of generateContent.
IdeBeginEvolve(k) ==
    IF k.prompt = ""
      THEN [k EXCEPT !.error = "Please enter a prompt to describe the change."]
    ELSE [k EXCEPT !.isLoading = TRUE, !.error = "",
                   !.lastSummary = "Thinking...", !.awaiting = TRUE]

\* What generateContent settles with: a rejection ("error"), a text that
\* JSON.parse refuses ("nonjson"), or the text of an object with its changes
\* (<<>> when absent or empty) and its summary ("" when absent).
IdeResponse(kind, changes, summary) ==
    [kind |-> kind, changes |-> changes, summary |-> summary]

modifiedPaths(changes) == {changes[i].filePath : i \in 1..Len(changes)}

\* Variant of IdeFinishEvolve: only the first change is handed on, through
\* the single-path callback.
IdeFinishEvolveFirstOnly(k, r) ==
    LET idle == [k EXCEPT !.isLoading = FALSE, !.awaiting = FALSE]
    IN  IF r.kind # "json"
          THEN [idle EXCEPT !.error = "Evolution Error", !.lastSummary = ""]
        ELSE IF Len(r.changes) > 0
          THEN [idle EXCEPT
                  !.vfs = onVfsUpdate(k.vfs, r.changes[1].filePath,
                                      r.changes[1].content),
                  !.lastSummary = IF r.summary = "" THEN "Evolution complete!"
                                  ELSE r.summary,
                  !.prompt = ""]
        ELSE [idle EXCEPT !.lastSummary = "No changes were made.", !.prompt = ""]

\* handleEvolve after the await: try / catch / finally.
IdeFinishEvolve(k, r) ==
    LET idle == [k EXCEPT !.isLoading = FALSE, !.awaiting = FALSE]
    IN  IF r.kind # "json"
          THEN [idle EXCEPT !.error = "Evolution Error", !.lastSummary = ""]
        ELSE IF Len(r.changes) > 0
          THEN [idle EXCEPT
                  !.vfs = onVfsBatchUpdate(k.vfs, r.changes),
                  !.lastSummary = IF r.summary = "" THEN "Evolution complete!"
                                  ELSE r.summary,
                  !.activeFile = IF k.activeFile \in modifiedPaths(r.changes)
                                 THEN k.activeFile ELSE r.changes[1].filePath,
                  !.prompt = ""]
        ELSE [idle EXCEPT !.lastSummary = "No changes were made.", !.prompt = ""]

IdePaths == {IndexPath, AppPath, IndexHtmlPath}

IdeContents == {"fn", "reqApp", "throw", "bad"}

HtmlContents == {"html", "nobody"}

\* The VFS the IDE is started on.
IdeSeeds ==
    UNION { { f \in [D -> IdeContents \cup HtmlContents] :
                \A q \in D : (f[q] \in HtmlContents) <=> (q = IndexHtmlPath) } :
            D \in SUBSET IdePaths }

Changes ==
    UNION { [1..n -> [filePath : {IndexPath, AppPath}, content : {"fn", "bad"}]] :
            n \in 0..MaxChanges }

IdeResponses ==
    { IdeResponse(k, <<>>, "") : k \in {"error", "nonjson"} }
    \cup { IdeResponse("json", c, sm) : c \in Changes, sm \in {"", "done"} }

\* What the evolution engine of the IDE holds.
EvolutionState(k) ==
    [vfs |-> k.vfs, prompt |-> k.prompt, isLoading |-> k.isLoading,
     lastSummary |-> k.lastSummary]

\* History: the operation, the vfs before it, the response it handled and the
\* state the handler left before LivePreview's effect ran.
IdeDid(op, before, r, settled) ==
    [op |-> op, before |-> before, resp |-> r, settled |-> EvolutionState(settled)]

NoIdeResponse == IdeResponse("none", <<>>, "")

IdePrompts == {"", "goal"}

\* Kernel and LivePreview after their first render and effects.
KernelMounted(vfs) ==
    LET k == [vfs |-> vfs, activeFile |-> AppPath, prompt |-> "",
              isLoading |-> FALSE, error |-> "", lastSummary |-> "",
              awaiting |-> FALSE, preview |-> NoPreview, mutations |-> 0]
    IN  PreviewEffect(k)

IdeInit ==
    /\ \E vfs \in IdeSeeds :
          ide = [k |-> KernelMounted(vfs),
                 last |-> IdeDid("mount", vfs, NoIdeResponse, KernelMounted(vfs))]
    /\ lvfs = <<>> /\ limporter = <<>> /\ limportPath = <<>>
    /\ lresult = NoRun /\ bresult = NoRun /\ lprev = NoRun
    /\ san = <<>>
    /\ store = <<>> /\ sys = <<>> /\ last = <<>>
    /\ serviceCalls = 0 /\ mutations = 0 /\ chain = <<>>

\* onClick of a file of the sidebar
IdeSelect ==
    /\ \E path \in DOMAIN ide.k.vfs :
          LET k1 == [ide.k EXCEPT !.activeFile = path]
          IN  ide' = [k |-> k1,
                      last |-> IdeDid("select", ide.k.vfs, NoIdeResponse, k1)]
    /\ UNCHANGED <<loaderVars, supervisorVars, sanitizeVars>>

\* onChange of the prompt textarea
IdeSetPrompt ==
    /\ \E text \in IdePrompts :
          LET k1 == [ide.k EXCEPT !.prompt = text]
          IN  ide' = [k |-> k1,
                      last |-> IdeDid("prompt", ide.k.vfs, NoIdeResponse, k1)]
    /\ UNCHANGED <<loaderVars, supervisorVars, sanitizeVars>>

\* onChange of the code editor, and the effect of LivePreview on the new vfs
IdeEdit ==
    /\ ide.k.mutations < MaxIdeMutations
    /\ \E content \in {"", "fn", "throw", "bad"} :
          LET k1 == [ide.k EXCEPT
                       !.vfs = onVfsUpdate(@, ide.k.activeFile, content),
                       !.mutations = @ + 1]
          IN  ide' = [k |-> PreviewEffect(k1),
                      last |-> IdeDid("edit", ide.k.vfs, NoIdeResponse, k1)]
    /\ UNCHANGED <<loaderVars, supervisorVars, sanitizeVars>>

\* onClick of the Evolve button (disabled while isLoading)
IdeClickEvolve ==
    /\ ~ide.k.isLoading
    /\ LET k1 == IdeBeginEvolve(ide.k)
       IN  ide' = [k |-> k1,
                   last |-> IdeDid("evolve", ide.k.vfs, NoIdeResponse, k1)]
    /\ UNCHANGED <<loaderVars, supervisorVars, sanitizeVars>>

\* generateContent settles, and the effect of LivePreview if vfs changed
IdeServiceResponds ==
    /\ ide.k.awaiting
    /\ \E r \in IdeResponses :
          /\ (Len(r.changes) > 0) => ide.k.mutations < MaxIdeMutations
          /\ LET k1 == IdeFinishEvolve(ide.k, r)
                 k2 == IF Len(r.changes) > 0 /\ r.kind = "json"
                         THEN [k1 EXCEPT !.mutations = @ + 1] ELSE k1
             IN  ide' = [k |-> IF k2.vfs # ide.k.vfs \/ Len(r.changes) > 0
                                 THEN PreviewEffect(k2) ELSE k2,
                         last |-> IdeDid("response", ide.k.vfs, r, k2)]
    /\ UNCHANGED <<loaderVars, supervisorVars, sanitizeVars>>

IdeNext ==
    \/ IdeSelect
    \/ IdeSetPrompt
    \/ IdeEdit
    \/ IdeClickEvolve
    \/ IdeServiceResponds

SpecIde == IdeInit /\ [][IdeNext]_vars

-----------------------------------------------------------------------------
(* Both user interfaces that issue evolution requests: a run is a run of   *)
(* the supervisor with the Kernel of INITIAL_PROJECT, or a run of the IDE  *)
(* of src/boot/kernel.tsx.                                                 *)

UiInit == Init \/ IdeInit

UiNext ==
    \/ ide = <<>> /\ Next
    \/ ide # <<>> /\ IdeNext

SpecUi == UiInit /\ [][UiNext]_vars

-----------------------------------------------------------------------------
(* sanitizeCodeForBabel.  Code is a sequence of characters; "\\" is the      *)
(* one-character string of a backslash.                                    *)

Backslash == "\\"

\* [nt'"\\/] of the lookahead
EscapeChars == {"n", "t", "'", "\"", Backslash, "/"}

\* [0-9a-fA-F]
HexDigits ==
    {"0", "1", "2", "3", "4", "5", "6", "7", "8", "9",
     "a", "b", "c", "d", "e", "f", "A", "B", "C", "D", "E", "F"}

\* The lookahead [nt'"\\/]|u[0-9a-fA-F]{4} at position j of code.
LookaheadMatches(code, j) ==
    \/ j <= Len(code) /\ code[j] \in EscapeChars
    \/ /\ j + 4 <= Len(code)
       /\ code[j] = "u"
       /\ \A k \in 1..4 : code[j + k] \in HexDigits

\* code.replace(/\\(?![nt'"\\/]|u[0-9a-fA-F]{4})/g, '\\\\') from position i on:
\* a match is one backslash, the lookahead consumes nothing, and the scan goes
\* on at the character after the match.
RECURSIVE ReplaceFrom(_, _)
ReplaceFrom(code, i) ==
    IF i > Len(code) THEN <<>>
    ELSE IF code[i] = Backslash /\ ~LookaheadMatches(code, i + 1)
      THEN <<Backslash, Backslash>> \o ReplaceFrom(code, i + 1)
    ELSE <<code[i]>> \o ReplaceFrom(code, i + 1)

sanitizeCodeForBabel(code) == ReplaceFrom(code, 1)

\* The characters and the codes the sanitizer is run on.
CodeChars == {Backslash, "n", "u", "0", "x"}

RECURSIVE CodesOfLen(_)
CodesOfLen(n) ==
    IF n = 0 THEN {<<>>}
    ELSE { Append(c, ch) : c \in CodesOfLen(n - 1), ch \in CodeChars }

Codes == UNION { CodesOfLen(n) : n \in 0..MaxCodeLen }

NotSanitized == <<"<not run>">>

SanitizeInit ==
    /\ san = [code |-> <<>>, out |-> NotSanitized, runs |-> 0]
    /\ lvfs = <<>> /\ limporter = <<>> /\ limportPath = <<>>
    /\ lresult = NoRun /\ bresult = NoRun /\ lprev = NoRun
    /\ store = <<>> /\ sys = <<>> /\ last = <<>>
    /\ serviceCalls = 0 /\ mutations = 0 /\ chain = <<>>
    /\ ide = <<>>

\* Step 2 sanitizes the bootloader code it read from the VFS.
SanitizeCode ==
    /\ san.runs = 0
    /\ \E code \in Codes :
          san' = [code |-> code, out |-> sanitizeCodeForBabel(code), runs |-> 1]
    /\ UNCHANGED <<loaderVars, supervisorVars, ideVars>>

\* The sanitized text is sanitized again.
SanitizeAgain ==
    /\ san.runs = 1
    /\ san' = [code |-> san.out, out |-> sanitizeCodeForBabel(san.out), runs |-> 2]
    /\ UNCHANGED <<loaderVars, supervisorVars, ideVars>>

SanitizeNext == SanitizeCode \/ SanitizeAgain

SpecSanitize == SanitizeInit /\ [][SanitizeNext]_vars

-----------------------------------------------------------------------------
(* Properties of the evolution engine                                      *)

\* The last step handled a response of the generative service.
Responded == last.op = "response"

\* The response was the text of an object with a filePath.
WellFormed == last.resp.kind = "json" /\ last.resp.filePath # UndefinedPath

\* The VFS held in memory: App's projectFiles, and Bootloader's while mounted.
MemoryHas(p, c) ==
    /\ p \in DOMAIN sys.app.projectFiles /\ sys.app.projectFiles[p] = c
    /\ sys.os.mounted =>
          p \in DOMAIN sys.os.projectFiles /\ sys.os.projectFiles[p] = c

MemoryLacks(p) ==
    /\ p \notin DOMAIN sys.app.projectFiles
    /\ sys.os.mounted => p \notin DOMAIN sys.os.projectFiles

MemoryIs(files) ==
    /\ sys.app.projectFiles = files
    /\ sys.os.mounted => sys.os.projectFiles = files

\* C1: after handleEvolveRequest applied Update{p,c} or Create{p,c}, reading p
\* from the VFS returns exactly c: in the projectFiles the updater committed and,
\* once saveProjectFiles has handed them to App, in every VFS held in memory.
C1_UpdateThenRead ==
    (/\ Responded /\ WellFormed
     /\ last.resp.action \in {"UPDATE", "CREATE"}
     /\ last.resp.code # Undefined)
        => /\ last.resp.filePath \in DOMAIN last.applied
           /\ last.applied[last.resp.filePath] = last.resp.code
           /\ last.oks[1] => MemoryHas(last.resp.filePath, last.resp.code)

\* C1 witness: an UPDATE replaced the content of an existing file by another
\* content and the restarted Bootloader holds it.
C1_Witness ==
    /\ Responded /\ WellFormed
    /\ last.resp.action = "UPDATE"
    /\ last.resp.filePath \in DOMAIN last.before
    /\ last.resp.code \notin {Undefined, last.before[last.resp.filePath]}
    /\ sys.os.mounted
    /\ sys.os.projectFiles[last.resp.filePath] = last.resp.code

\* C2: after handleEvolveRequest applied Delete{p}, p is absent from the VFS;
\* when p was already absent the VFS content is unchanged and no error
\* is raised.
C2_DeleteThenAbsent ==
    (Responded /\ WellFormed /\ last.resp.action = "DELETE")
        => /\ last.resp.filePath \notin DOMAIN last.applied
           /\ last.oks[1] => MemoryLacks(last.resp.filePath)
           /\ last.resp.filePath \notin DOMAIN last.before =>
                 /\ last.applied = last.before
                 /\ ~sys.boundary.hasError
                 /\ (last.oks[1] /\ last.oks[2]) =>
                       /\ MemoryIs(last.before)
                       /\ sys.os.mounted
                       /\ sys.app.biosError = ""
                       /\ sys.os.bootError = ""

\* C2 witness: a DELETE of a path that was already absent has been handled.
C2_Witness ==
    /\ Responded /\ WellFormed /\ last.resp.action = "DELETE"
    /\ last.resp.filePath \notin DOMAIN last.before
    /\ sys.os.mounted /\ sys.os.projectFiles = last.before

UnknownAction ==
    last.resp.kind = "json" /\ last.resp.action \notin {"UPDATE", "CREATE", "DELETE"}

ErrorSurfaced ==
    \/ sys.app.biosError # ""
    \/ BoundaryRendered(sys) /\ sys.boundary.hasError
    \/ OsRendered(sys) /\ sys.os.mounted /\ ~sys.os.isEvolving /\ sys.os.bootError # ""

\* C6: a response whose action tag is none of UPDATE, CREATE, DELETE is
\* rejected: the VFS after handling it is the VFS before, the store is not
\* written, and an error is shown to the user.
C6_UnknownActionRejected ==
    (Responded /\ UnknownAction)
        => /\ last.applied = NothingApplied
           /\ sys.app.projectFiles = last.before
           /\ sys.os.mounted => sys.os.projectFiles = last.before
           /\ store = Stringify(last.before)
           /\ ErrorSurfaced

\* C6 witness: a response with the tag RENAME and a well-formed path and code
\* has been handled and the error boundary shows its fallback.
C6_Witness ==
    /\ Responded /\ UnknownAction /\ WellFormed
    /\ last.resp.filePath \in DOMAIN last.before
    /\ last.resp.code # Undefined
    /\ sys.boundary.hasError

\* The response is empty or violates the schema of the single-target protocol.
SchemaViolating ==
    \/ last.resp.kind \in {"empty", "nonjson"}
    \/ /\ last.resp.kind = "json"
       /\ \/ last.resp.filePath = UndefinedPath
          \/ last.resp.action \in {"UPDATE", "CREATE"} /\ last.resp.code = Undefined

\* C7: every empty or schema-violating response is rejected as a hard failure
\* and the VFS is not mutated: the VFS held in memory after handling it is the
\* VFS before (stated for the runs in which every write to the store succeeds).
C7_SchemaViolationLeavesVfs ==
    (Responded /\ SchemaViolating /\ last.oks \notin {<<FALSE, FALSE>>, <<TRUE, FALSE>>})
        => sys.app.projectFiles = last.before

\* The evolution call failed: evolveCode threw (service error, empty or
\* malformed text) or the action was unknown.
CallFailed ==
    Responded /\ (last.resp.kind \in {"error", "empty", "nonjson"} \/ UnknownAction)

\* C8: when an evolution call fails the VFS is unchanged by it, the busy flags
\* isEvolving and isLoading are false once the call has finished, and no
\* further service call is outstanding.
C8_FailureLeavesVfsAndClearsBusy ==
    CallFailed
        => /\ sys.app.projectFiles = last.before
           /\ sys.os.mounted => sys.os.projectFiles = last.before
           /\ store = Stringify(last.before)
           /\ ~sys.os.isEvolving
           /\ ~sys.kernel.isLoading
           /\ ~sys.os.awaiting
           /\ serviceCalls = last.calls

\* C8 witness: the service call was rejected, Bootloader is still mounted with
\* its VFS and shows the failure.
C8_Witness ==
    /\ CallFailed /\ last.resp.kind = "error"
    /\ sys.os.mounted
    /\ sys.os.projectFiles = last.before
    /\ sys.os.bootError = "Evolution failed"

\* C9: an evolution-service failure moves no stage to Failed: the Kernel that
\* issued the request is still rendered, so edits and further requests remain
\* possible without a factory reset.
C9_FailureKeepsStageRunning ==
    (Responded /\ last.resp.kind \in {"error", "empty", "nonjson"})
        => KernelRendered(sys)

\* The last step mutated the VFS and its write to the store failed.
SaveFailedAfterMutation ==
    /\ last.op \in {"edit", "response"}
    /\ last.applied # NothingApplied
    /\ ~last.oks[1]

\* C10: a failed write to the store is non-fatal: the in-memory VFS still
\* holds the mutation that triggered the write and every stage that was
\* running is still running.
C10_SaveFailureNonFatal ==
    SaveFailedAfterMutation
        => /\ \/ sys.app.projectFiles = last.applied
              \/ sys.os.mounted /\ sys.os.projectFiles = last.applied
           /\ OsRendered(sys) /\ sys.os.mounted

-----------------------------------------------------------------------------
(* Properties of the loader                                                *)

LoadDone == lresult # NoRun

\* The "return" event of the top-level call: the last event of the trace.
TopReturn == Last(lresult.trace)

\* The top-level call itself threw the module-not-found error.
TopNotFound ==
    lresult.exc = "ModuleNotFound" /\ TopReturn.path = NotFound

\* The five candidates of the top-level call, written out.
TopBase == baseResolvedPath(limporter, limportPath)

FiveCandidates ==
    << TopBase,
       TopBase \o <<".tsx">>,
       TopBase \o <<".ts">>,
       TopBase \o <<"/", "index", ".tsx">>,
       TopBase \o <<"/", "index", ".ts">> >>

PresentCandidates == {i \in 1..5 : FiveCandidates[i] \in DOMAIN lvfs}

\* C3: for a non-capability specifier, customRequire fails with the
\* module-not-found error if and only if none of the five candidate paths is
\* a key of the VFS; a key whose content is the empty string counts as present.
C3_NotFoundIffNoCandidate ==
    (LoadDone /\ limportPath # <<"react">>)
        => (TopNotFound <=> PresentCandidates = {})

\* C3 witness: the only present candidate holds the empty string and the
\* call resolved to it.
C3_Witness ==
    /\ LoadDone /\ limportPath # <<"react">>
    /\ PresentCandidates # {}
    /\ \A i \in PresentCandidates : lvfs[FiveCandidates[i]] = ""
    /\ ~TopNotFound
    /\ TopReturn.path \in DOMAIN lvfs

\* C4: when several candidates are keys of the VFS the call resolves to the
\* earliest in the order exact, '.tsx', '.ts', '/index.tsx', '/index.ts'; with
\* the VFS {'/a.tsx'} the specifier '/a' resolves to '/a.tsx' from any importer.
C4_EarliestCandidateWins ==
    (LoadDone /\ limportPath # <<"react">>) =>
        /\ \A i \in PresentCandidates :
              (\A j \in PresentCandidates : i <= j)
                  => TopReturn.path = FiveCandidates[i]
        /\ (DOMAIN lvfs = {<<"/", "a", ".tsx">>} /\ limportPath = <<"/", "a">>)
              => TopReturn.path = <<"/", "a", ".tsx">>

\* C4 witness: both '.tsx' and '.ts' candidates are present, the exact path
\* is not, and the call resolved to the '.tsx' one.
C4_Witness ==
    /\ LoadDone /\ limportPath # <<"react">>
    /\ PresentCandidates = {2, 3}
    /\ TopReturn.path = FiveCandidates[2]

\* The nested "return" events: every event of the trace but the last.
NestedReturns ==
    {i \in 1..(Len(lresult.trace) - 1) : lresult.trace[i].ev = "return"}

\* C5: loading a module whose import graph has a cycle terminates (the call
\* stack is never exhausted), and the exports reference a module inside the
\* cycle obtains for the entry is the object the top-level call returns.
C5_CycleSharesExports ==
    LoadDone =>
        /\ lresult.exc # "RangeError"
        /\ lresult.exc = "" =>
              \A i \in NestedReturns :
                  lresult.trace[i].path = TopReturn.path
                      => lresult.trace[i].ref = lresult.ret

\* C5 witness: /a requires ./b, /b requires /a; the load of /a finished and
\* /b's require of /a returned /a's cell while /a was still running.
C5_Witness ==
    /\ LoadDone /\ lresult.exc = ""
    /\ limportPath = <<"/", "a">>
    /\ \E i \in NestedReturns :
          /\ lresult.trace[i].importer = <<"/", "b", ".tsx">>
          /\ lresult.trace[i].path = TopReturn.path
          /\ lresult.trace[i].ref = lresult.ret
          /\ lresult.ret # ReactRef

-----------------------------------------------------------------------------
(* Properties of the boot-critical paths                                   *)

\* C11: no evolution result deletes a boot-critical path: every path with the
\* prefix '/boot/' that is in the VFS before an evolution call is still in the
\* VFS the call committed, whatever action the service returned.
C11_BootCriticalSurvives ==
    (Responded /\ last.applied # NothingApplied)
        => \A p \in DOMAIN last.before :
              StartsWithBoot(p) => p \in DOMAIN last.applied

-----------------------------------------------------------------------------
(* Properties of the factory reset                                         *)

\* C13: a confirmed factory reset deletes the persisted key and restarts the
\* bootstrap chain with the VFS equal to INITIAL_PROJECT, whatever the VFS was
\* before; a declined confirmation changes neither the store nor the VFS.
\* (A step that leaves `last` as a decline left it and takes a timer off
\* sys.stale is the timer of an unmounted Bootloader, not a decline.)
C13_FactoryReset ==
    [][ /\ (last'.op = "reset") =>
              /\ store' = NoItem
              /\ sys'.app.projectFiles = INITIAL_PROJECT
              /\ ~sys'.app.externalModules /\ ~sys'.app.BootloaderComponent
              /\ sys'.app.biosError = "" /\ ~sys'.boundary.hasError
              /\ ~sys'.os.mounted /\ sys'.stale = <<>>
        /\ (last'.op = "resetDeclined" /\ sys'.stale = sys.stale)
              => (store' = store /\ sys' = sys)
      ]_vars

\* C13 witness: the reset was confirmed when the VFS differed from the seed
\* tree and the store held it; now the key is gone and the VFS is the seed.
C13_Witness ==
    /\ last.op = "reset"
    /\ last.before # INITIAL_PROJECT
    /\ store = NoItem
    /\ sys.app.projectFiles = INITIAL_PROJECT

-----------------------------------------------------------------------------
(* Properties of the staged bootstrap                                      *)

\* What the module at the content leaves as its default export.
DefaultExport(content) ==
    LET body == Program(content)
        ds   == {i \in 1..Len(body) : body[i].op = "default"}
    IN  IF ds = {} THEN "undefined"
        ELSE body[CHOOSE i \in ds : \A j \in ds : j <= i].arg[1]

\* The entry path is a key of the VFS, its content compiles and its default
\* export is a function.
EntryIsFunction(files, path) ==
    /\ path \in DOMAIN files
    /\ files[path] \notin {"bad", Undefined}
    /\ DefaultExport(files[path]) = "function"

\* C14: a stage has an entry component installed only if its entry path is in
\* the VFS and compiles to a default export that is a function; when the entry
\* is missing or its export is not a function, the stage has a diagnostic and
\* no entry component once its pass has run (stage 2: /boot/bootloader.tsx
\* and biosError; stage 3: /boot/kernel.tsx and bootError).
C14_RunningOnlyWithFunctionEntry ==
    /\ sys.app.BootloaderComponent
          => EntryIsFunction(sys.app.projectFiles, BootloaderPath)
    /\ (sys.app.externalModules
            /\ ~EntryIsFunction(sys.app.projectFiles, BootloaderPath))
          => (~sys.app.BootloaderComponent /\ sys.app.biosError # "")
    /\ sys.os.KernelComponent
          => EntryIsFunction(sys.os.projectFiles, KernelPath)
    /\ (sys.os.mounted /\ sys.os.timers = <<>>
            /\ ~EntryIsFunction(sys.os.projectFiles, KernelPath))
          => (~sys.os.KernelComponent /\ sys.os.bootError # "")

\* C14 witness: /boot/kernel.tsx is in the VFS with a default export that is
\* not a function; the pass has run, stage 3 has its diagnostic and no
\* KernelComponent.
C14_Witness ==
    /\ sys.os.mounted /\ sys.os.timers = <<>>
    /\ KernelPath \in DOMAIN sys.os.projectFiles
    /\ sys.os.projectFiles[KernelPath] = "obj"
    /\ ~sys.os.KernelComponent
    /\ sys.os.bootError # ""

\* The last step was a pass of runProject in which loading /boot/kernel.tsx
\* threw: a module was not found, did not compile or threw while running.
Stage3LoadFailed ==
    /\ last.op = "pass"
    /\ customRequire(last.before, NewPass, KernelPath, KernelPath).exc # ""

\* C15: a compile or resolve failure of stage 3 is fatal to stage 3 only: it
\* sets bootError, the BIOS has no biosError and still renders the Bootloader
\* inside an ErrorBoundary that caught nothing, the Bootloader is still
\* mounted, and its Factory Reset button is on screen.
C15_Stage3FailureIsLocal ==
    Stage3LoadFailed
        => /\ sys.os.bootError # ""
           /\ ~sys.os.KernelComponent
           /\ sys.app.biosError = ""
           /\ sys.app.externalModules /\ sys.app.BootloaderComponent
           /\ ~sys.boundary.hasError
           /\ sys.os.mounted
           /\ sys.os.projectFiles = last.before
           /\ ~sys.os.isEvolving
           /\ FactoryResetOffered

\* C15 witness: a component the kernel requires does not compile; the pass
\* failed with the compile error and the Bootloader shows it.
C15_Witness ==
    /\ Stage3LoadFailed
    /\ sys.os.bootError = "CompileError"
    /\ sys.os.projectFiles[KernelPath] = "kernel"
    /\ sys.os.mounted

\* The VFS the last operation left: what it applied, or what it started from.
LeftByLastOperation ==
    IF last.op \in {"edit", "response"} /\ last.applied # NothingApplied
    THEN last.applied ELSE last.before

\* C17: when a throw while rendering a running stage has been caught by the
\* ErrorBoundary, the fallback with the Factory Reset button replaces the
\* stages, the BIOS has no error of its own, and the in-memory VFS and the
\* store are exactly what the last operation left: catching changed neither.
C17_RenderFailureCaught ==
    (BoundaryRendered(sys) /\ sys.boundary.hasError)
        => /\ ~sys.os.mounted /\ ~KernelRendered(sys)
           /\ sys.app.biosError = ""
           /\ sys.app.projectFiles = LeftByLastOperation
           /\ store = Stringify(LeftByLastOperation)

\* C17 witness: a pass loaded a kernel whose component throws when rendered;
\* the boundary shows its fallback and the store still holds that kernel.
C17_Witness ==
    /\ last.op = "pass"
    /\ BoundaryRendered(sys) /\ sys.boundary.hasError
    /\ \E p \in DOMAIN store : store[p] = "crash"
    /\ sys.app.projectFiles = last.before

\* A pass of runProject is scheduled and has not run yet.
PassPending == sys.os.mounted /\ sys.os.timers # <<>>

\* The last step mutated the VFS: an edit, or an evolution that was applied.
Mutated ==
    last.op \in {"edit", "response"} /\ last.applied # NothingApplied

\* C16: every VFS mutation is followed by a complete pass of the owning stage
\* over the mutated VFS.  Stage 2 is recompiled in the commit of the mutation:
\* a mounted Bootloader was compiled from the VFS it holds.  For stage 3 the
\* mutation leaves a pass pending that closed over the mutated VFS (unless the
\* mutation ended in a fatal error screen), a pending pass eventually runs or
\* its Bootloader is unmounted, and once no pass is pending the last pass of
\* the mounted Bootloader has read the VFS it holds.
C16_MutationForcesFullPass ==
    /\ [](sys.os.mounted => sys.app.compiledFrom = sys.os.projectFiles)
    /\ [](PassPending => sys.os.timers = <<sys.os.projectFiles>>)
    /\ []((sys.os.mounted /\ ~PassPending)
              => sys.os.passRead = sys.os.projectFiles)
    /\ [](Mutated =>
              \/ PassPending /\ sys.os.projectFiles = last.applied
                             /\ ~sys.os.KernelComponent
              \/ sys.app.biosError # ""
              \/ sys.boundary.hasError)
    /\ (PassPending ~> (~sys.os.mounted \/ sys.os.timers = <<>>))

\* C16 witness: an edit changed a component; the pass that followed has run
\* on the edited VFS and the Kernel it produced is rendered.
C16_Witness ==
    /\ last.op = "pass"
    /\ KernelRendered(sys)
    /\ sys.os.passRead = sys.os.projectFiles
    /\ sys.os.projectFiles # INITIAL_PROJECT
    /\ mutations > 0

-----------------------------------------------------------------------------
(* Properties of the live-preview executor                                 *)

\* Both executors have run the call on a VFS of '.ts' and '.tsx' files that
\* all transpile, so that the bundle exists and holds every file.
BothDone ==
    /\ lresult # NoRun /\ bresult # NoRun
    /\ \A p \in DOMAIN lvfs : IsScript(p)
    /\ ~TranspileFails(lvfs)
    /\ limportPath \notin {<<"react">>, <<"@google/genai">>}

\* C18: the require of the bundle resolves every (importer, specifier) pair
\* over every VFS to the path customRequire resolves it to, or fails with
\* module-not-found exactly when customRequire does.
C18_BundleResolvesLikeLoader ==
    BothDone => Last(bresult.trace).path = Last(lresult.trace).path

-----------------------------------------------------------------------------
(* Properties of the IDE of src/boot/kernel.tsx                            *)

\* The last operation applied a multi-target response whose entries have
\* pairwise distinct paths.
DistinctBatchApplied ==
    /\ ide.last.op = "response"
    /\ ide.last.resp.kind = "json"
    /\ Len(ide.last.resp.changes) > 0
    /\ \A i, j \in 1..Len(ide.last.resp.changes) :
          i # j => ide.last.resp.changes[i].filePath
                   # ide.last.resp.changes[j].filePath

\* C12: a multi-target apply of N {path, content} entries with pairwise
\* distinct paths leaves the VFS mapping each of the N paths to its listed
\* content and every other path to the content it had before; no path is
\* removed and no other path appears.
C12_MultiTargetApply ==
    DistinctBatchApplied =>
      LET changes == ide.last.resp.changes
          before  == ide.last.before
          after   == ide.k.vfs
      IN  /\ \A i \in 1..Len(changes) :
                /\ changes[i].filePath \in DOMAIN after
                /\ after[changes[i].filePath] = changes[i].content
          /\ \A p \in DOMAIN before \ modifiedPaths(changes) :
                p \in DOMAIN after /\ after[p] = before[p]
          /\ DOMAIN after = DOMAIN before \cup modifiedPaths(changes)

\* A response of two entries, one creating a path and one overwriting a
\* path with another content, was applied next to a file it does not list.
C12_Witness ==
    /\ DistinctBatchApplied
    /\ Len(ide.last.resp.changes) = 2
    /\ \E i \in 1..2 : ide.last.resp.changes[i].filePath \notin DOMAIN ide.last.before
    /\ \E i \in 1..2 :
          /\ ide.last.resp.changes[i].filePath \in DOMAIN ide.last.before
          /\ ide.last.before[ide.last.resp.changes[i].filePath]
               # ide.last.resp.changes[i].content
    /\ IndexHtmlPath \in DOMAIN ide.last.before
    /\ C12_MultiTargetApply

\* The last run of the live-preview executor crashed: Babel refused a file,
\* the entry was missing, or the bundle's script failed while it ran.
PreviewCrashed ==
    \/ ide.k.preview.error # ""
    \/ ide.k.preview.ran \notin {"", "<none>"}

\* C19: a crash of the live-preview executor (transpile error, missing entry,
\* or failure while the bundle runs) is caught and shown inline as the
\* preview's error, and leaves the VFS and the evolution state (prompt, busy
\* flag, last summary) as the handler before it left them.
C19_PreviewCrashContained ==
    PreviewCrashed =>
      /\ ide.k.preview.error # ""
      /\ EvolutionState(ide.k) = ide.last.settled

\* LivePreview reports the missing entry.
EntryNotFoundShown ==
    ide.k.preview.error = "Entry point /index.tsx not found in VFS."

\* C20 as stated: the executor fails with the entry-not-found error and
\* writes no bundle exactly when /index.tsx is absent from the VFS.
C20_EntryNotFoundIffAbsent ==
    (EntryNotFoundShown /\ ~ide.k.preview.bundled)
      <=> (IndexPath \notin DOMAIN ide.k.vfs)

\* C20 amended: whenever /index.tsx is absent the run fails with an error and
\* writes nothing into the iframe; the error is the entry-not-found error
\* exactly when /index.tsx is absent and every .ts/.tsx file of the VFS
\* transpiles (a file Babel refuses is reported first, by Babel's message).
C20_EntryNotFound ==
    /\ (IndexPath \notin DOMAIN ide.k.vfs) =>
          /\ ide.k.preview.error # ""
          /\ ~ide.k.preview.wrote
          /\ ~ide.k.preview.bundled
    /\ EntryNotFoundShown
          <=> (IndexPath \notin DOMAIN ide.k.vfs /\ ~TranspileFails(ide.k.vfs))

\* An edit of another file ran the executor on a VFS without /index.tsx
\* whose files all transpile, and the entry-not-found error is shown.
C20_Witness ==
    /\ ide.last.op = "edit"
    /\ IndexPath \notin DOMAIN ide.k.vfs
    /\ AppPath \in DOMAIN ide.k.vfs
    /\ EntryNotFoundShown
    /\ ~ide.k.preview.wrote

-----------------------------------------------------------------------------
(* Properties of the module cache                                          *)

\* The positions of the trace where a module body started to run.
ExecEvents == {i \in 1..Len(lresult.trace) : lresult.trace[i].ev = "exec"}

\* The positions of the trace where a customRequire call ended.
ReturnEvents == {i \in 1..Len(lresult.trace) : lresult.trace[i].ev = "return"}

\* C21: within one pass each module body is executed at most once; every
\* require that resolves to a path whose cell exists returns that cell, also
\* while the cell's body is still running, and starts no second execution.
C21_EachModuleExecutedOnce ==
    LoadDone =>
      /\ \A i, j \in ExecEvents :
            lresult.trace[i].path = lresult.trace[j].path => i = j
      /\ \A i \in ExecEvents : \A j \in ReturnEvents :
            (j > i /\ lresult.trace[j].path = lresult.trace[i].path
                   /\ lresult.trace[j].ref # NoRef)
              => lresult.trace[j].ref = lresult.trace[i].ref

\* C21 witness: a module was required again while its body was running (the
\* nested call returned before the module's own call did), got the cell of
\* the running execution, and the pass finished.
C21_Witness ==
    /\ LoadDone /\ lresult.exc = ""
    /\ \E i \in ExecEvents : \E j, k \in ReturnEvents :
          /\ i < j /\ j < k
          /\ lresult.trace[j].path = lresult.trace[i].path
          /\ lresult.trace[k].path = lresult.trace[i].path
          /\ lresult.trace[j].ref = lresult.trace[i].ref
          /\ lresult.trace[k].ref = lresult.trace[i].ref
          /\ lresult.trace[j].importer # lresult.trace[k].importer
    /\ C21_EachModuleExecutedOnce

\* A second pass has run after a first one.
RerunDone == lprev # NoRun

\* The cells of lresult's pass that a customRequire call returned.
ReturnedCells ==
    {lresult.trace[j].ref : j \in ReturnEvents} \ {NoRef, ReactRef}

\* C22: the module cache is scoped to one pass: a pass starts with an empty
\* cache, so every cell a require of that pass returns was created by an
\* execution of that pass, and no cell of the earlier pass is returned.
C22_CacheScopedToPass ==
    RerunDone =>
      /\ \A r \in ReturnedCells : r > Len(lprev.cells)
      /\ \A j \in ReturnEvents :
            lresult.trace[j].ref \in ReturnedCells =>
              \E i \in ExecEvents :
                 /\ i < j
                 /\ lresult.trace[i].path = lresult.trace[j].path
                 /\ lresult.trace[i].ref = lresult.trace[j].ref

\* C22 witness: both passes loaded the same path without failure, and the
\* second pass returned a cell that the first pass did not create.
C22_Witness ==
    /\ RerunDone
    /\ lprev.exc = "" /\ lresult.exc = ""
    /\ lprev.ret \in 1..Len(lprev.cells)
    /\ Last(lprev.trace).path = TopReturn.path
    /\ lresult.ret > Len(lprev.cells)
    /\ lresult.ret # lprev.ret

-----------------------------------------------------------------------------
(* Properties of a failed pass                                             *)

\* Once a customRequire call of the pass has thrown, the trace holds nothing
\* but the calls above it ending with the same throw: no module is executed
\* and no call returns a value after it.
AbortedAtThrow(pass) ==
    \A i, j \in 1..Len(pass.trace) :
        (i < j /\ pass.trace[i].ev = "return" /\ pass.trace[i].ref = NoRef)
          => (pass.trace[j].ev = "return" /\ pass.trace[j].ref = NoRef)

\* C23: when compiling or executing a module reachable from /boot/kernel.tsx
\* throws, the pass is aborted: nothing is loaded after the throw, no pass is
\* left pending (no retry), the stage shows exactly one diagnostic, the
\* message of that throw as bootError, and no KernelComponent is installed.
C23_FailedPassAborts ==
    Stage3LoadFailed =>
      LET pass == customRequire(last.before, NewPass, KernelPath, KernelPath)
      IN  /\ AbortedAtThrow(pass)
          /\ sys.os.timers = <<>>
          /\ sys.os.bootError = pass.exc
          /\ sys.app.biosError = "" /\ ~sys.boundary.hasError
          /\ ~sys.os.KernelComponent
          /\ ~KernelRendered(sys)

\* C23 witness: the kernel requires FileExplorer, Editor and EvolveIcon in
\* this order; FileExplorer does not compile, and the failed pass has
\* executed the kernel module but neither of the modules required after it.
C23_Witness ==
    /\ Stage3LoadFailed
    /\ last.before[KernelPath] = "kernel"
    /\ FileExplorerPath \in DOMAIN last.before
    /\ last.before[FileExplorerPath] = "bad"
    /\ EditorPath \in DOMAIN last.before
    /\ LET pass == customRequire(last.before, NewPass, KernelPath, KernelPath)
       IN  /\ KernelPath \in DOMAIN pass.moduleCache
           /\ EditorPath \notin DOMAIN pass.moduleCache
           /\ EvolveIconPath \notin DOMAIN pass.moduleCache
    /\ sys.os.bootError = "CompileError"

-----------------------------------------------------------------------------
(* Properties of the capability bindings                                   *)

\* The five-candidate probe, had it been run for the top-level specifier,
\* would have matched a file of the VFS.
ProbeWouldMatch == PresentCandidates # {}

\* C24: a specifier that names a registered capability resolves to the
\* capability binding and the VFS is not consulted: 'react' in the stage-3
\* loader (no probe, no execution, whatever files the VFS holds), 'react' and
\* '@google/genai' in the BIOS loader.
C24_CapabilityShortCircuits ==
    LoadDone =>
      /\ (limportPath = <<"react">>) =>
            /\ lresult.exc = ""
            /\ lresult.ret = ReactRef
            /\ lresult.trace = <<>>
            /\ lresult.moduleCache = <<>>
      /\ (limportPath = <<"react">>) => biosRequire(limportPath) = ReactRef
      /\ (limportPath = <<"@google/genai">>) => biosRequire(limportPath) = GenAIRef

\* C24 witness: 'react' was required from a module of the root directory
\* while the VFS holds '/react.tsx', which the '.tsx' candidate would match.
C24_Witness ==
    /\ LoadDone
    /\ limportPath = <<"react">>
    /\ ProbeWouldMatch
    /\ <<"/", "react", ".tsx">> \in DOMAIN lvfs
    /\ lresult.ret = ReactRef

-----------------------------------------------------------------------------
(* Properties of nested resolution                                         *)

\* The specifiers the body of the module at path m requires.
RequiresOf(m) ==
    {Program(lvfs[m])[n].arg :
        n \in {x \in 1..Len(Program(lvfs[m])) : Program(lvfs[m])[x].op = "require"}}

\* C25: a require issued from inside a module's body is resolved relative to
\* the directory of that module's own resolved path, at any nesting depth:
\* every nested call has as importer a module that was executed before it
\* under that very path and whose body holds the specifier, and it resolves
\* to what the probe gives for that importer.
C25_NestedRequireIsScoped ==
    LoadDone =>
      \A j \in NestedReturns :
        LET m == lresult.trace[j].importer
            q == lresult.trace[j].importPath
        IN  /\ \E i \in ExecEvents : i < j /\ lresult.trace[i].path = m
            /\ m \in DOMAIN lvfs /\ q \in RequiresOf(m)
            /\ q # <<"react">> =>
                  lresult.trace[j].path = finalResolvedPath(lvfs, m, q)

\* C25 witness: '/boot/kernel.tsx' required '/a', which resolved to '/a.tsx';
\* its body required './b', which resolved to '/b.tsx' next to '/a.tsx',
\* where the same specifier resolves to nothing from '/boot/kernel.tsx'.
C25_Witness ==
    /\ LoadDone /\ lresult.exc = ""
    /\ limporter = <<"/", "boot", "/", "kernel", ".tsx">>
    /\ \E j \in NestedReturns :
          /\ lresult.trace[j].importer = <<"/", "a", ".tsx">>
          /\ lresult.trace[j].importPath = <<".", "/", "b">>
          /\ lresult.trace[j].path = <<"/", "b", ".tsx">>
          /\ ModuleNotFound(finalResolvedPath(lvfs, limporter, <<".", "/", "b">>))

-----------------------------------------------------------------------------
(* Properties of the stage order                                           *)

\* C26: stage 2 is never compiled or run before the external capabilities
\* have loaded: an installed BootloaderComponent, a compiled bootloader and a
\* mounted Bootloader each imply externalModules, and when the import fails
\* the BIOS shows its error and stage 2 has not been started.
C26_Stage2WaitsForCapabilities ==
    /\ sys.app.BootloaderComponent => sys.app.externalModules
    /\ sys.os.mounted => sys.app.externalModules
    /\ ~sys.app.externalModules =>
          /\ sys.app.compiledFrom = <<>>
          /\ ~BoundaryRendered(sys)
    /\ last.op = "depsFailed" =>
          /\ sys.app.biosError # ""
          /\ ~sys.app.externalModules
          /\ ~sys.app.BootloaderComponent
          /\ ~sys.os.mounted

\* C26 witness: after a factory reset reloaded the page, the import of the
\* capability failed; the BIOS error is shown and no stage 2 exists.
C26_Witness ==
    /\ last.op = "depsFailed"
    /\ sys.app.biosError # ""
    /\ ~sys.app.BootloaderComponent
    /\ sys.app.projectFiles = INITIAL_PROJECT
    /\ mutations > 0

\* Stage 2 is Failed: App returns the 'Fatal BIOS Error!' screen.
Stage2Failed == sys.app.biosError # ""

\* Stage 3 is Failed: the Bootloader returns its boot error screen.
Stage3Failed ==
    /\ OsRendered(sys) /\ sys.os.mounted
    /\ ~sys.os.isEvolving
    /\ sys.os.bootError # ""

\* C27: there is no automatic retry.  A step taken while a stage is Failed,
\* other than a confirmed factory reset, leaves that stage Failed with the
\* same error, starts no compile of stage 2 and no pass of stage 3, and does
\* not bring the Kernel back.
C27_NoAutomaticRetry ==
    [][ (last'.op # "reset") =>
          /\ Stage2Failed =>
                /\ sys'.app = sys.app
                /\ ~BoundaryRendered(sys')
          /\ Stage3Failed =>
                /\ sys'.os.bootError = sys.os.bootError
                /\ sys'.os.passRead = sys.os.passRead
                /\ sys'.app.compiledFrom = sys.app.compiledFrom
                /\ last'.op # "pass"
                /\ ~KernelRendered(sys') ]_vars

\* C27 witness: the pass failed, the boot error screen is shown, no pass is
\* pending, and the user declined the factory reset: the stage is still
\* Failed.
C27_Witness ==
    /\ last.op = "resetDeclined"
    /\ Stage3Failed
    /\ sys.os.bootError = "CompileError"
    /\ sys.os.timers = <<>>
    /\ ~KernelRendered(sys)

-----------------------------------------------------------------------------
(* Properties of persistence                                               *)

\* The last step mutated the VFS and its write to the store succeeded.
SavedAfterMutation == Mutated /\ last.oks[1]

\* useState initialiser of App on the next start: what the store gives back.
LoadedOnNextStart == AppInit(store).app.projectFiles

\* C28: after a VFS mutation whose store write succeeded, the persisted
\* object equals the mutated in-memory VFS, the one the BIOS holds and the
\* one a mounted stage 2 holds, and the next start loads exactly that VFS.
C28_PersistLoadRoundTrip ==
    SavedAfterMutation =>
      /\ store = last.applied
      /\ sys.app.projectFiles = last.applied
      /\ sys.os.mounted => sys.os.projectFiles = last.applied
      /\ LoadedOnNextStart = last.applied

\* Every path other than p is a key of both or of neither and holds the
\* same content in both.
SameExceptAt(before, after, p) ==
    \A q \in (DOMAIN before \cup DOMAIN after) \ {p} :
        /\ q \in DOMAIN before /\ q \in DOMAIN after
        /\ after[q] = before[q]

\* C29: a single-path mutation touches only its own path: after
\* handleFileChange(p, c) and after a single-target evolution on p was
\* applied, the VFS the Bootloader holds and the VFS the BIOS holds differ
\* from the VFS at apply time at most at p.
C29_SinglePathFrame ==
    Mutated =>
      /\ sys.os.mounted =>
            SameExceptAt(last.before, sys.os.projectFiles, ToKey(last.resp.filePath))
      /\ SameExceptAt(last.before, sys.app.projectFiles, ToKey(last.resp.filePath))
      /\ SameExceptAt(last.before, last.applied, ToKey(last.resp.filePath))

\* C29 witness: an evolution created a new path next to the six files of the
\* initial project, all of which the Bootloader still holds unchanged.
C29_Witness ==
    /\ Mutated /\ last.op = "response"
    /\ last.resp.action = "CREATE"
    /\ last.resp.filePath \notin DOMAIN last.before
    /\ last.before = INITIAL_PROJECT
    /\ sys.os.mounted
    /\ sys.os.projectFiles # last.before
    /\ \A q \in DOMAIN INITIAL_PROJECT : sys.os.projectFiles[q] = INITIAL_PROJECT[q]

\* The last step applied an evolution result to the VFS.
EvolutionApplied == Mutated /\ last.op = "response"

\* C30: applying the same EditAction twice in a row gives the same VFS
\* content as applying it once, for UPDATE, CREATE and DELETE: the updater
\* maps the VFS it produced, and the VFS the Bootloader holds after the
\* apply, to themselves; and an apply to a VFS that already is the result of
\* the same action leaves the content as it was.
C30_ReapplyIsNoOp ==
    EvolutionApplied =>
      LET evolution == ParseEvolution(last.resp)
      IN  /\ ApplyEvolution(last.applied, evolution) = last.applied
          /\ sys.os.mounted =>
                ApplyEvolution(sys.os.projectFiles, evolution) = sys.os.projectFiles
          /\ (sys.os.mounted /\ ApplyEvolution(last.before, evolution) = last.before)
                => sys.os.projectFiles = last.before

\* C30 witness: the second applied evolution of the run is a CREATE whose
\* path already held the code (the result of the same action applied
\* before), and the VFS is what it was before this second apply.
C30_Witness ==
    /\ EvolutionApplied
    /\ mutations = 2 /\ last.calls = 2
    /\ last.resp.action = "CREATE"
    /\ last.resp.filePath = <<"/", "a", ".tsx">>
    /\ last.resp.code = "fn"
    /\ last.before # INITIAL_PROJECT
    /\ last.applied = last.before
    /\ sys.os.mounted /\ sys.os.projectFiles = last.before

-----------------------------------------------------------------------------
(* Properties of the requests in flight                                    *)

\* The step starts a call to the generative service: from the Kernel of
\* INITIAL_PROJECT (Evolve, file delete, file create), or from the IDE.
CallStarts ==
    IF ide = <<>> THEN serviceCalls' > serviceCalls
    ELSE ide'.k.awaiting /\ ide'.last.op = "evolve"

\* A call to the generative service has not settled yet.
CallOutstanding ==
    IF ide = <<>> THEN sys.os.awaiting ELSE ide.k.awaiting

\* The busy flag of the engine that issues the calls.
BusyFlag ==
    IF ide = <<>> THEN sys.os.isEvolving ELSE ide.k.isLoading

\* C31: at most one evolution request is outstanding: a call is outstanding
\* only while the busy flag is set, and no step starts a call while the busy
\* flag is set or a call is outstanding.
C31_OneRequestInFlight ==
    /\ [](CallOutstanding => BusyFlag)
    /\ [][CallStarts => (~BusyFlag /\ ~CallOutstanding)]_vars

\* C31 witness: a call is outstanding in the supervisor after the first call
\* of the run has settled, and the Kernel with its buttons is not rendered.
C31_Witness ==
    /\ ide = <<>>
    /\ sys.os.awaiting /\ sys.os.isEvolving
    /\ serviceCalls = 2
    /\ ~KernelRendered(sys)


-----------------------------------------------------------------------------
(* Several deferred passes pending at once                                  *)

PendingPasses == sys.stale \o sys.os.timers

AllPassesRan == sys.os.mounted /\ PendingPasses = <<>>

\* A step in which the timer of an unmounted Bootloader fires.
StalePassRuns == sys.stale # <<>> /\ sys'.stale = Tail(sys.stale) /\ last' = last

\* C32: when several deferred passes are pending at once, every one of them
\* is over the VFS of the mounted Bootloader; the pass of an unmounted
\* instance changes nothing that is shown; and once all have run, the
\* stage-3 outcome shown is that of the pass over the latest VFS.
C32_LatestPassShown ==
    /\ [](sys.os.mounted =>
            \A i \in DOMAIN PendingPasses : PendingPasses[i] = sys.os.projectFiles)
    /\ [][StalePassRuns =>
            /\ sys'.os = sys.os /\ sys'.app = sys.app
            /\ sys'.boundary = sys.boundary /\ sys'.kernel = sys.kernel]_vars
    /\ []((AllPassesRan /\ last.op = "pass") =>
            /\ sys.os.passRead = sys.os.projectFiles
            /\ sys.os.projectFiles = sys.app.projectFiles
            /\ sys.os.bootError = KernelPassFailure(sys.os.projectFiles)
            /\ sys.os.KernelComponent = (sys.os.bootError = ""))

C32_Witness ==
    /\ sys.os.mounted
    /\ sys.stale # <<>> /\ sys.os.timers # <<>>
    /\ mutations = 2
    /\ KernelPassFailure(sys.os.projectFiles) # ""

-----------------------------------------------------------------------------
(* The save and recompile chain of one VFS mutation                         *)

\* A step that mutates the VFS: an edit, or a response that is applied.
MutationStep == mutations' = mutations + 1

\* A step in which a deferred pass of a mounted Bootloader runs.
PassStep == last'.op = "pass" /\ last' # last

\* C33: one VFS mutation runs a bounded chain: the save of the mutated VFS,
\* at most one stage-2 recompile and remount, and at most the one save of the
\* mount effect, which passes App the object it already holds and so starts
\* nothing further.  The deferred pass that follows saves and recompiles
\* nothing, and after it nothing is pending.
C33_SaveChainTerminates ==
    /\ [](chain.saves <= 2 /\ chain.compiles <= 1
          /\ chain.saves <= chain.compiles + 1)
    /\ [][MutationStep => chain'.saves >= 1]_vars
    /\ [][PassStep => chain' = NoSteps /\ PendingPasses' = <<>>]_vars

C33_Witness ==
    /\ Mutated /\ last.oks = <<TRUE, TRUE>>
    /\ chain = [saves |-> 2, compiles |-> 1]
    /\ sys.os.mounted /\ sys.os.projectFiles = last.applied
    /\ store = Stringify(last.applied)

-----------------------------------------------------------------------------
(* Loading the persisted VFS on start                                       *)

\* The store gives no value to start from: no item, or reading or parsing
\* throws (JSON.parse of the empty string throws).
NothingToLoad == store \in {NoItem, Unreadable, EmptyText, Garbage}

\* A value that maps paths to contents.
IsVfsObject(v) == v \notin {NoItem, Unreadable, EmptyText, Garbage, JsonNull, JsonNumber}

\* C34: on start the VFS is the seed tree when the store has no value or
\* reading or parsing it throws, otherwise it is the persisted object; the
\* page always starts with a VFS object, and stage 2 never fails on reading
\* it.
C34_StartsFromSeedOrPersisted ==
    /\ last.op = "init" =>
          sys.app.projectFiles =
              IF NothingToLoad THEN INITIAL_PROJECT ELSE store
    /\ IsVfsObject(sys.app.projectFiles)
    /\ sys.app.biosError #
          "Cannot read properties of null (reading '/boot/bootloader.tsx')"


-----------------------------------------------------------------------------
(* Properties of sanitizeCodeForBabel                                       *)

\* Every backslash of code, read from position i on, starts one of \n, \t,
\* \', \", \\, \/ or \uXXXX; the character an escape ends with starts nothing.
RECURSIVE WellEscapedFrom(_, _)
WellEscapedFrom(code, i) ==
    IF i > Len(code) THEN TRUE
    ELSE IF code[i] # Backslash THEN WellEscapedFrom(code, i + 1)
    ELSE IF i + 1 <= Len(code) /\ code[i + 1] \in EscapeChars
      THEN WellEscapedFrom(code, i + 2)
    ELSE IF LookaheadMatches(code, i + 1) THEN WellEscapedFrom(code, i + 6)
    ELSE FALSE

\* C35: a code in which every backslash belongs to a valid escape sequence,
\* an escaped backslash followed by any character included, is returned
\* unchanged, and sanitizing the result again changes nothing.
C35_SanitizeKeepsValidEscapes ==
    san.runs > 0 =>
       /\ WellEscapedFrom(san.code, 1) => san.out = san.code
       /\ sanitizeCodeForBabel(san.out) = san.out
====
